---- MODULE Spec2Model ----
(***************************************************************************)
(* OAuth2 token cache and outbound API gateways of the job-card backend.   *)
(*                                                                         *)
(*   back/routes/zoho_books.py : token_manager, get_new_access_token,      *)
(*                               get_valid_access_token,                   *)
(*                               make_zoho_books_request                   *)
(*   back/routes/Workdrive.py  : books2_token_manager,                     *)
(*                               wordrive_token_manager,                   *)
(*                               fetch_books_invoices,                     *)
(*                               fetch_workdrive_invoice_numbers,          *)
(*                               normalize_currency, check_invoices        *)
(*   back/routes/send_mail.py  : send_email, as check_invoices awaits it   *)
(*   back/routes/auth.py       : reset_password, delete_user_permanently   *)
(*   back/routes/job_card.py   : generate_job_card_number, create_job_card *)
(*   back/routes/notifications.py, back/main.py : the notification         *)
(*                               endpoints and notification_cleanup_loop   *)
(*                                                                         *)
(* Spec and SpecClock follow one caller through the gateway functions,     *)
(* SpecThreads two pool threads through the token functions of             *)
(* zoho_books.py, SpecCheck the handler check_invoices, SpecBooks the      *)
(* endpoints of zoho_books.py that need the organization.  SpecFilters     *)
(* applies the filter, the extraction and the report of check_invoices to  *)
(* given upstream data, SpecTwice serves one request twice.  SpecReset,    *)
(* SpecCards and SpecNotifications follow the requests that write the      *)
(* database tables.                                                        *)
(*                                                                         *)
(* The clock `now` is the value datetime.now() returns.  The upstream      *)
(* services are the environment: every answer they can give to a token     *)
(* exchange or to a data request is chosen nondeterministically.           *)
(***************************************************************************)
EXTENDS Integers, Sequences, FiniteSets, TLC

\* ------------------------------------------------------------ bounds ----
MaxTime == 400          \* the clock stops advancing here
MaxCalls == 3           \* gateway calls one caller starts

MaxInvoices == 3        \* invoices the accounting service lists

\* --------------------------------------------------- program constants --
SafetyMargin == 300         \* timedelta(seconds=expires_in - 300)
DefaultExpiresIn == 3600    \* data.get("expires_in", 3600)
HTTP_500 == 500             \* HTTPException(status_code=500, ...)
HTTP_401 == 401             \* response.status_code == 401
HTTP_400 == 400             \* HTTPException(status_code=400, ...)
HTTP_404 == 404             \* HTTPException(status_code=404, ...)
HtmlListLimit == 40         \* missing_list[:40]
TextListLimit == 20         \* missing_list[:20]

\* ------------------------------------------------------- environment ----
Callers == {"c1"}
\* "books"     : zoho_books.py, token_manager, make_zoho_books_request
\* "books2"    : Workdrive.py, books2_token_manager, fetch_books_invoices
\* "workdrive" : Workdrive.py, wordrive_token_manager,
\*               fetch_workdrive_invoice_numbers
Services == {"books", "books2", "workdrive"}
Tokens == {"t1", "t2"}
TickSteps == {100, 300}
Statuses == {200, 401, 403, 500}
Bodies == {"b1", "b2"}
AppCodes == {<<>>, <<0>>, <<57>>}   \* data.get("code"): None, 0, non-zero

\* Optional[str] / Optional[datetime]: "None" is None, "" the empty string,
\* <<>> is None and <<t>> the datetime t.
NoneToken == "None"
EmptyToken == ""

\* The responses of the token endpoint (requests.post(url, params=params)) whose
\* expires_in, when present, is in E: transport failure, non-2xx, a body without
\* access_token, a body with an (empty or non-empty) access_token.
TokenResponsesOver(E) ==
    {[kind |-> "neterr", status |-> 0, access_token |-> NoneToken, expires_in |-> <<>>]}
    \cup {[kind |-> "http", status |-> 400, access_token |-> NoneToken, expires_in |-> <<>>]}
    \cup {[kind |-> "http", status |-> 200, access_token |-> NoneToken, expires_in |-> <<>>]}
    \cup {[kind |-> "http", status |-> 200, access_token |-> t, expires_in |-> e] :
            t \in Tokens \cup {EmptyToken},
            e \in {<<>>} \cup {<<x>> : x \in E}}
\* Spec: the clock stands still, a token is born valid (3600) or expired (300).
TokenResponses == TokenResponsesOver({300})
\* SpecClock: time passes, so the lifetimes vary.
ExpiresInValues == {0, 300, 400, 600}
ClockTokenResponses == TokenResponsesOver(ExpiresInValues)

\* A response to a data request (requests.get / requests.request).
NoResponse ==
    [kind |-> "none", status |-> 0, body |-> "", code |-> <<>>,
     errors |-> FALSE, related |-> FALSE]
NetErr ==
    [kind |-> "neterr", status |-> 0, body |-> "", code |-> <<>>,
     errors |-> FALSE, related |-> FALSE]
ErrorResponses ==
    {[kind |-> "http", status |-> s, body |-> b, code |-> <<>>,
      errors |-> FALSE, related |-> FALSE] : s \in Statuses \ {200}, b \in Bodies}
BooksOk ==
    {[kind |-> "http", status |-> 200, body |-> b, code |-> c,
      errors |-> FALSE, related |-> FALSE] : b \in Bodies, c \in AppCodes}
WorkdriveOk ==
    {[kind |-> "http", status |-> 200, body |-> b, code |-> c,
      errors |-> e, related |-> r] :
        b \in Bodies, c \in {<<>>, <<57>>}, e \in BOOLEAN, r \in BOOLEAN}
DataResponses(s) ==
    {NetErr} \cup ErrorResponses \cup (IF s = "workdrive" THEN WorkdriveOk ELSE BooksOk)
\* SpecClock: one answer of each kind.
ClockDataResponses(s) ==
    {r \in DataResponses(s) : r.body = "b1" /\ r.status \in {0, 200, 401} /\ r.code = <<>>
                               /\ ~r.errors /\ ~r.related}
ClockServices == {"books", "books2"}
\* The upstream's possible answers per service, as the actions take them.
AllData == [s \in Services |-> DataResponses(s)]
ClockData == [s \in Services |-> ClockDataResponses(s)]

VARIABLES
    now,             \* datetime.now()
    token_manager,   \* per service: [access_token, token_expiry]
    last_set,        \* per service: <<>> or <<[at, expires_in, token]>>, the last set_token
    window,          \* per service: get_valid_access_token calls since one of them
                     \*   made the cache valid, and the token requests they issued
    pc,              \* per caller: position in the gateway call
    svc,             \* per caller: the gateway being called
    access_token,    \* per caller: the local variable access_token
    first,           \* per caller: kind and status of the first data response
    last,            \* per caller: the latest response to the guarded request
    files_response,  \* per caller: the response to the file-listing request
    sent,            \* per caller: tokens carried by the data requests, in order
    exchanged,       \* per caller: tokens returned by this call's token exchanges
    hit,             \* per caller: the cache was valid when get_valid_access_token ran
    cache_in,        \* per caller: the service's cache when the call started
    cache0,          \* per caller: the service's cache when the first data request went out
    data_requests,   \* per caller: requests of the guarded data request
    files_requests,  \* per caller: requests to the related (file listing) URL
    token_requests,  \* per caller: token-endpoint requests of this call
    outcome,         \* per caller: outcome of the guarded request
    result,          \* per caller: what the gateway function returns or raises
    calls,           \* per caller: gateway calls started
    thread,          \* per thread of the zoho_books.py endpoints: its position in
                     \*   the token functions and what it read and stored
    writer,          \* the set_token invocation that wrote each field of
                     \*   zoho_books.py's token_manager
    completed,       \* <<>> or <<pair>>: what the set_token that returned last computed
    organization_id, \* per service: the configuration names an organization
    upstream,        \* the accounting invoices and the storage files upstream
    handler,         \* per caller: the route handler being served: its request
                     \*   body, its locals, the services it fetched from and what
                     \*   the fetches returned, the reports it handed to
                     \*   send_email, and its response
    previous,        \* per caller: <<>> or <<response>>, what the handler
                     \*   answered to the request before this one
    clock,           \* datetime.utcnow(), in hours
    users,           \* table users: per user id, <<>> or <<[password]>>
    password_reset_tokens,  \* table password_reset_tokens: rows [token, user_id,
                     \*   expires_at, used_at]
    job_cards,       \* table job_cards: rows [id, job_card_number, created_by]
    notifications,   \* table notifications: rows [id, created_at, read_at,
                     \*   created_by]
    request,         \* per thread: the database request it serves: its body,
                     \*   its position, what it read and its response
    created,         \* the numbers generate_job_card_number returned, each with
                     \*   the numbers stored then
    deleted          \* the notifications deleted, each with its age and whether
                     \*   it was read

vars == <<now, token_manager, last_set, window, pc, svc, access_token, first, last,
          files_response, sent, exchanged, hit, cache_in, cache0, data_requests,
          files_requests, token_requests, outcome, result, calls,
          thread, writer, completed, organization_id, upstream, handler,
          previous, clock, users, password_reset_tokens, job_cards, notifications,
          request, created, deleted>>

\* The state of the calls of the gateway functions, and with it the clock and
\* the token managers.
caller_vars == <<pc, svc, access_token, first, last, files_response, sent, exchanged,
                 hit, cache_in, cache0, data_requests, files_requests, token_requests,
                 outcome, result, calls>>
gateway_vars == <<now, token_manager, last_set, window, caller_vars>>

\* The state outside the gateway functions: the threads of the zoho_books.py
\* endpoints, and the route handlers with their configuration and upstream data.
thread_vars == <<thread, writer, completed>>
handler_vars == <<organization_id, upstream, handler>>

\* The database tables, and the state of the requests that read and write them.
db_vars == <<users, password_reset_tokens, job_cards, notifications>>
store_vars == <<previous, clock, db_vars, request, created, deleted>>

\* ------------------------------------------------------ TokenManager ----
\* TokenManager.__init__
EmptyManager == [access_token |-> NoneToken, token_expiry |-> <<>>]

\* Variant of IsTokenValid that still accepts the token at its expiry instant.
IsTokenValidInclusive(m, t) ==
    IF m.access_token \in {NoneToken, EmptyToken} \/ m.token_expiry = <<>>
    THEN FALSE
    ELSE t <= m.token_expiry[1]

\* TokenManager.is_token_valid at clock value t
IsTokenValid(m, t) ==
    IF m.access_token \in {NoneToken, EmptyToken} \/ m.token_expiry = <<>>
    THEN FALSE
    ELSE t < m.token_expiry[1]

\* Variant of SetToken that forgets to add the lifetime to datetime.now().
SetTokenNoClock(m, tok, expires_in, t) ==
    [access_token |-> tok, token_expiry |-> <<expires_in - SafetyMargin>>]

\* TokenManager.set_token at clock value t
SetToken(m, tok, expires_in, t) ==
    [access_token |-> tok, token_expiry |-> <<t + (expires_in - SafetyMargin)>>]

\* data.get("expires_in", 3600)
ExpiresIn(r) == IF r.expires_in = <<>> THEN DefaultExpiresIn ELSE r.expires_in[1]

\* response.raise_for_status() passes
StatusOk(status) == status < 400

\* Variant of AcquireOk that stores whatever a 2xx body holds.
AcquireOkNoTokenCheck(s, r) ==
    /\ r.kind = "http"
    /\ StatusOk(r.status)

\* Does get_new_access_token accept the token response r for service s?
\* zoho_books.py tests `"access_token" in data`, Workdrive.py `not access_token`.
AcquireOk(s, r) ==
    /\ r.kind = "http"
    /\ StatusOk(r.status)
    /\ IF s = "books"
       THEN r.access_token # NoneToken
       ELSE r.access_token \notin {NoneToken, EmptyToken}

\* ------------------------------------------------------------ results ---
NoResult == [kind |-> "none", status_code |-> 0, source |-> "",
             upstream_status |-> <<>>, upstream_body |-> <<>>, data |-> NoResponse]

\* return response.json() / data.get("invoices", []) / invoice_numbers
Ok(r) == [kind |-> "ok", status_code |-> 200, source |-> "",
          upstream_status |-> <<>>, upstream_body |-> <<>>, data |-> r]

\* raise HTTPException(status_code=500, detail=...)
Fail(source, ustatus, ubody) ==
    [kind |-> "fail", status_code |-> HTTP_500, source |-> source,
     upstream_status |-> ustatus, upstream_body |-> ubody, data |-> NoResponse]

\* The HTTPException get_new_access_token raises.
AuthError == Fail("auth", <<>>, <<>>)

\* except requests.exceptions.RequestException as e: the detail of the
\* HTTPException.  str(e) of an HTTPError names the status code; only
\* Workdrive.py adds e.response.text to the detail, zoho_books.py logs it.
RequestFailed(s, r) ==
    IF r.kind = "neterr" THEN Fail("transport", <<>>, <<>>)
    ELSE IF s = "books" THEN Fail("http", <<r.status>>, <<>>)
    ELSE Fail("http", <<r.status>>, <<r.body>>)

\* data.get("code") not in [0, None]
CodeError(r) == r.code \notin {<<>>, <<0>>}

\* Variant of Classify that leaves out raise_for_status.
ClassifyNoStatusCheck(s, r) ==
    IF r.kind = "neterr" THEN RequestFailed(s, r)
    ELSE IF s = "books2" /\ CodeError(r) THEN Fail("app", <<>>, <<>>)
    ELSE Ok(r)

\* raise_for_status, then the check of the parsed body: only
\* fetch_books_invoices looks at `code`.
Classify(s, r) ==
    IF r.kind = "neterr" \/ ~StatusOk(r.status) THEN RequestFailed(s, r)
    ELSE IF s = "books2" /\ CodeError(r) THEN Fail("app", <<>>, <<>>)
    ELSE Ok(r)

\* The guarded request is over with response r.  The accounting gateways
\* return; fetch_workdrive_invoice_numbers checks `errors`, then the related
\* URL, then goes on to list the files.
Final(s, r) ==
    LET o == Classify(s, r) IN
    IF s # "workdrive" \/ o.kind = "fail"
    THEN [pc |-> "done", outcome |-> o, result |-> o]
    ELSE IF r.errors
    THEN [pc |-> "done", outcome |-> o, result |-> Fail("app", <<>>, <<>>)]
    ELSE IF ~r.related
    THEN [pc |-> "done", outcome |-> o, result |-> Ok(NoResponse)]
    ELSE [pc |-> "files", outcome |-> o, result |-> NoResult]

\* Variant of FirstNext that treats a transport failure like a 401.
FirstNextRetryTransport(s, r) ==
    IF r.kind = "neterr" \/ (r.kind = "http" /\ r.status = HTTP_401)
    THEN [pc |-> "refresh", outcome |-> NoResult, result |-> NoResult]
    ELSE Final(s, r)

\* After the first response: `if response.status_code == 401:` refresh and retry.
FirstNext(s, r) ==
    IF r.kind = "http" /\ r.status = HTTP_401
    THEN [pc |-> "refresh", outcome |-> NoResult, result |-> NoResult]
    ELSE Final(s, r)

\* Variant of RetryNext that refreshes again whenever the retry gets a 401.
RetryNextAgainOn401(s, r) == FirstNext(s, r)

\* After the response to the retry: no second look at 401.
RetryNext(s, r) == Final(s, r)

\* After the response to requests.get(related_url): raise_for_status only.
FilesNext(s, r) ==
    IF r.kind = "neterr" \/ ~StatusOk(r.status) THEN RequestFailed(s, r) ELSE Ok(r)

NoFirst == [kind |-> "none", status |-> 0]
NoWindow == [calls |-> 0, requests |-> 0]

\* --------------------------------------------------------------- Init ---
InitGateways ==
    /\ now = 0
    /\ token_manager = [s \in Services |-> EmptyManager]
    /\ last_set = [s \in Services |-> <<>>]
    /\ window = [s \in Services |-> NoWindow]
    /\ pc = [c \in Callers |-> "idle"]
    /\ svc = [c \in Callers |-> "books"]
    /\ access_token = [c \in Callers |-> NoneToken]
    /\ first = [c \in Callers |-> NoFirst]
    /\ last = [c \in Callers |-> NoResponse]
    /\ files_response = [c \in Callers |-> NoResponse]
    /\ sent = [c \in Callers |-> <<>>]
    /\ exchanged = [c \in Callers |-> <<>>]
    /\ hit = [c \in Callers |-> FALSE]
    /\ cache_in = [c \in Callers |-> EmptyManager]
    /\ cache0 = [c \in Callers |-> EmptyManager]
    /\ data_requests = [c \in Callers |-> 0]
    /\ files_requests = [c \in Callers |-> 0]
    /\ token_requests = [c \in Callers |-> 0]
    /\ outcome = [c \in Callers |-> NoResult]
    /\ result = [c \in Callers |-> NoResult]
    /\ calls = [c \in Callers |-> 0]

\* ---------------------------------------------------- the thread pool ---
\* zoho_books.py declares its endpoints with `def`: the framework runs each
\* request on a thread of its pool, and the threads share token_manager.
\* Each thread serves one request.
Threads == {"th1", "th2"}

\* What the token endpoint answers a thread: a transport failure, a token of
\* the default lifetime, a token that lives 100 s past the margin.
ThreadTokenResponses ==
    {r \in TokenResponsesOver({400}) :
        \/ r.kind = "neterr"
        \/ r.access_token = "t1" /\ r.expires_in = <<>>
        \/ r.access_token = "t2" /\ r.expires_in = <<400>>}
NoTokenResponse ==
    [kind |-> "none", status |-> 0, access_token |-> NoneToken, expires_in |-> <<>>]

\* No set_token has written the field.
NoWriter == <<>>

IdleThread ==
    [pc |-> "idle", sets |-> 0, missed |-> FALSE, got401 |-> FALSE,
     data |-> NoTokenResponse, access_token |-> NoneToken,
     stored |-> <<>>, seen |-> <<>>]

InitThreads ==
    /\ thread = [t \in Threads |-> IdleThread]
    /\ writer = [access_token |-> NoWriter, token_expiry |-> NoWriter]
    /\ completed = <<>>

\* ------------------------------------------------- the route handlers ---
\* The services whose configuration names an organization.
Organizations == {"books", "books2"}

NoPayload ==
    [currency |-> <<>>, statuses |-> <<>>, email |-> <<>>, date_from |-> "",
     date_to |-> ""]

\* No response yet / the response of a handler that returned or raised.
NoReply == [kind |-> "none", status_code |-> 0, error |-> NoResult, body |-> <<>>]

IdleHandler ==
    [name |-> "none", pc |-> "idle", payload |-> NoPayload,
     invoice_numbers |-> <<>>, file_invoice_numbers |-> <<>>,
     fetched |-> <<>>, results |-> <<>>, mails |-> <<>>, response |-> NoReply]

NoUpstream == [invoices |-> <<>>, files |-> <<>>]

InitHandlers ==
    /\ organization_id = [s \in Organizations |-> TRUE]
    /\ upstream = NoUpstream
    /\ handler = [c \in Callers |-> IdleHandler]

\* ------------------------------------------------------ the database ---
UserIds == {"u1", "u2"}
NoRequest ==
    [name |-> "none", pc |-> "idle", token |-> "", new_password |-> "",
     token_entry |-> <<>>, response |-> NoReply]

\* Empty tables, nobody is served.
InitStore ==
    /\ previous = [c \in Callers |-> <<>>]
    /\ clock = 0
    /\ users = [u \in UserIds |-> <<>>]
    /\ password_reset_tokens = {}
    /\ job_cards = {}
    /\ notifications = {}
    /\ request = [t \in Threads |-> NoRequest]
    /\ created = <<>>
    /\ deleted = {}

\* Every token manager is empty, nobody is calling.
Init == InitGateways /\ InitThreads /\ InitHandlers /\ InitStore

\* ------------------------------------------------------------ actions ---
\* Time passes.
Tick ==
    /\ \E d \in TickSteps : now + d <= MaxTime /\ now' = now + d
    /\ UNCHANGED <<token_manager, last_set, window, pc, svc, access_token, first, last,
                   files_response, sent, exchanged, hit, cache_in, cache0,
                   data_requests, files_requests, token_requests, outcome, result,
                   calls>>

\* A caller enters one of the gateway functions.
BeginCall(c, s) ==
    /\ pc[c] \in {"idle", "done"}
    /\ pc' = [pc EXCEPT ![c] = "token"]
    /\ svc' = [svc EXCEPT ![c] = s]
    /\ calls' = [calls EXCEPT ![c] = @ + 1]
    /\ access_token' = [access_token EXCEPT ![c] = NoneToken]
    /\ first' = [first EXCEPT ![c] = NoFirst]
    /\ last' = [last EXCEPT ![c] = NoResponse]
    /\ files_response' = [files_response EXCEPT ![c] = NoResponse]
    /\ sent' = [sent EXCEPT ![c] = <<>>]
    /\ exchanged' = [exchanged EXCEPT ![c] = <<>>]
    /\ hit' = [hit EXCEPT ![c] = FALSE]
    /\ cache_in' = [cache_in EXCEPT ![c] = token_manager[s]]
    /\ cache0' = [cache0 EXCEPT ![c] = EmptyManager]
    /\ data_requests' = [data_requests EXCEPT ![c] = 0]
    /\ files_requests' = [files_requests EXCEPT ![c] = 0]
    /\ token_requests' = [token_requests EXCEPT ![c] = 0]
    /\ outcome' = [outcome EXCEPT ![c] = NoResult]
    /\ result' = [result EXCEPT ![c] = NoResult]
    /\ UNCHANGED <<now, token_manager, last_set, window>>

\* A caller starts a gateway call, as long as the bound on its calls allows.
StartCall(c, s) == calls[c] < MaxCalls /\ BeginCall(c, s)

\* Variant of GetNewAccessToken with one token manager for all the services.
GetNewAccessTokenSharedCache(c, r, next) ==
    LET s == svc[c] IN
    /\ token_requests' = [token_requests EXCEPT ![c] = @ + 1]
    /\ IF AcquireOk(s, r)
       THEN /\ token_manager' = [x \in Services |->
                   SetToken(token_manager[x], r.access_token, ExpiresIn(r), now)]
            /\ last_set' = [last_set EXCEPT
                   ![s] = <<[at |-> now, expires_in |-> ExpiresIn(r),
                             token |-> r.access_token]>>]
            /\ access_token' = [access_token EXCEPT ![c] = r.access_token]
            /\ exchanged' = [exchanged EXCEPT ![c] = Append(@, r.access_token)]
            /\ pc' = [pc EXCEPT ![c] = next]
            /\ UNCHANGED <<outcome, result>>
       ELSE /\ pc' = [pc EXCEPT ![c] = "done"]
            /\ outcome' = [outcome EXCEPT ![c] = AuthError]
            /\ result' = [result EXCEPT ![c] = AuthError]
            /\ UNCHANGED <<token_manager, last_set, access_token, exchanged>>

\* get_new_access_token for caller c, the token endpoint answering r: one
\* request; on success set_token and the caller goes to `next`, on failure the
\* HTTPException ends the call and the cache is not touched.
GetNewAccessToken(c, r, next) ==
    LET s == svc[c] IN
    /\ token_requests' = [token_requests EXCEPT ![c] = @ + 1]
    /\ IF AcquireOk(s, r)
       THEN /\ token_manager' = [token_manager EXCEPT
                   ![s] = SetToken(@, r.access_token, ExpiresIn(r), now)]
            /\ last_set' = [last_set EXCEPT
                   ![s] = <<[at |-> now, expires_in |-> ExpiresIn(r),
                             token |-> r.access_token]>>]
            /\ access_token' = [access_token EXCEPT ![c] = r.access_token]
            /\ exchanged' = [exchanged EXCEPT ![c] = Append(@, r.access_token)]
            /\ pc' = [pc EXCEPT ![c] = next]
            /\ UNCHANGED <<outcome, result>>
       ELSE /\ pc' = [pc EXCEPT ![c] = "done"]
            /\ outcome' = [outcome EXCEPT ![c] = AuthError]
            /\ result' = [result EXCEPT ![c] = AuthError]
            /\ UNCHANGED <<token_manager, last_set, access_token, exchanged>>

\* Variant of CacheHit that never trusts the cache.
CacheHitNever(m, t) == FALSE

\* `if manager.is_token_valid():` in get_valid_access_token
CacheHit(m, t) == IsTokenValid(m, t)

\* get_valid_access_token, the token endpoint answering from TR when asked.
\* window counts the calls made while the cache is valid, from the call whose
\* acquire made it valid, and the token requests those calls issued.
GetValidAccessToken(c, TR) ==
    LET s == svc[c]
        inside == IsTokenValid(token_manager[s], now) IN
    /\ pc[c] = "token"
    /\ hit' = [hit EXCEPT ![c] = inside]
    /\ IF CacheHit(token_manager[s], now)
       THEN /\ access_token' = [access_token EXCEPT ![c] = token_manager[s].access_token]
            /\ pc' = [pc EXCEPT ![c] = "request"]
            /\ UNCHANGED <<token_manager, last_set, exchanged, token_requests,
                           outcome, result>>
       ELSE \E r \in TR : GetNewAccessToken(c, r, "request")
    /\ window' = [window EXCEPT ![s] =
          LET issued == token_requests'[c] - token_requests[c] IN
          IF inside
          THEN IF @.calls = 0 THEN @
               ELSE [calls |-> @.calls + 1, requests |-> @.requests + issued]
          ELSE IF IsTokenValid(token_manager'[s], now)
               THEN [calls |-> 1, requests |-> issued]
               ELSE NoWindow]
    /\ UNCHANGED <<now, svc, first, last, files_response, sent, cache_in, cache0,
                   data_requests, files_requests, calls>>

\* Variant of RequestToken that keeps the header of the first request.
RequestTokenStale(c) == IF sent[c] = <<>> THEN access_token[c] ELSE sent[c][1]

\* The Authorization header of a data request: the local access_token.
RequestToken(c) == access_token[c]

\* The first data request and the branch on its response.
FirstRequest(c, DR) ==
    /\ pc[c] = "request"
    /\ \E r \in DR[svc[c]] :
        LET n == FirstNext(svc[c], r) IN
        /\ first' = [first EXCEPT ![c] = [kind |-> r.kind, status |-> r.status]]
        /\ last' = [last EXCEPT ![c] = r]
        /\ pc' = [pc EXCEPT ![c] = n.pc]
        /\ outcome' = [outcome EXCEPT ![c] = n.outcome]
        /\ result' = [result EXCEPT ![c] = n.result]
    /\ sent' = [sent EXCEPT ![c] = Append(@, RequestToken(c))]
    /\ cache0' = [cache0 EXCEPT ![c] = token_manager[svc[c]]]
    /\ data_requests' = [data_requests EXCEPT ![c] = @ + 1]
    /\ UNCHANGED <<now, token_manager, last_set, window, svc, access_token,
                   files_response, exchanged, hit, cache_in, files_requests,
                   token_requests, calls>>

\* On 401: get_new_access_token, bypassing the cache.  The token it stores
\* was not obtained by get_valid_access_token: the window is closed.
Refresh(c, TR) ==
    /\ pc[c] = "refresh"
    /\ \E r \in TR : GetNewAccessToken(c, r, "retry")
    /\ window' = [window EXCEPT ![svc[c]] =
          IF token_manager'[svc[c]] # token_manager[svc[c]] THEN NoWindow ELSE @]
    /\ UNCHANGED <<now, svc, first, last, files_response, sent, hit, cache_in, cache0,
                   data_requests, files_requests, calls>>

\* The retried data request; its response is final.
Retry(c, DR) ==
    /\ pc[c] = "retry"
    /\ \E r \in DR[svc[c]] :
        LET n == RetryNext(svc[c], r) IN
        /\ last' = [last EXCEPT ![c] = r]
        /\ pc' = [pc EXCEPT ![c] = n.pc]
        /\ outcome' = [outcome EXCEPT ![c] = n.outcome]
        /\ result' = [result EXCEPT ![c] = n.result]
    /\ sent' = [sent EXCEPT ![c] = Append(@, RequestToken(c))]
    /\ data_requests' = [data_requests EXCEPT ![c] = @ + 1]
    /\ UNCHANGED <<now, token_manager, last_set, window, svc, access_token, first,
                   files_response, exchanged, hit, cache_in, cache0, files_requests,
                   token_requests, calls>>

\* fetch_workdrive_invoice_numbers: requests.get(related_url, headers=headers);
\* no branch on 401, no check of the parsed body.
FilesRequest(c, DR) ==
    /\ pc[c] = "files"
    /\ \E r \in DR[svc[c]] :
        /\ files_response' = [files_response EXCEPT ![c] = r]
        /\ result' = [result EXCEPT ![c] = FilesNext(svc[c], r)]
    /\ files_requests' = [files_requests EXCEPT ![c] = @ + 1]
    /\ pc' = [pc EXCEPT ![c] = "done"]
    /\ UNCHANGED <<now, token_manager, last_set, window, svc, access_token, first,
                   last, sent, exchanged, hit, cache_in, cache0, data_requests,
                   token_requests, outcome, calls>>

\* A step of a gateway function: no thread of the thread pool and no route
\* handler moves.
GatewaysOnly == UNCHANGED <<thread_vars, handler_vars, store_vars>>

\* The gateways under every upstream answer; the clock stands still.
Next ==
    \/ \E c \in Callers, s \in Services : StartCall(c, s) /\ GatewaysOnly
    \/ \E c \in Callers : GetValidAccessToken(c, TokenResponses) /\ GatewaysOnly
    \/ \E c \in Callers : FirstRequest(c, AllData) /\ GatewaysOnly
    \/ \E c \in Callers : Refresh(c, TokenResponses) /\ GatewaysOnly
    \/ \E c \in Callers : Retry(c, AllData) /\ GatewaysOnly
    \/ \E c \in Callers : FilesRequest(c, AllData) /\ GatewaysOnly

Spec == Init /\ [][Next]_vars

\* A caller of SpecClock keeps calling the gateway it called first: the caches
\* are independent objects, and one of them is followed through time.
StartClockCall(c, s) ==
    /\ calls[c] = 0 \/ s = svc[c]
    /\ StartCall(c, s)

\* The token cache of an accounting gateway as time passes.
NextClock ==
    \/ Tick /\ GatewaysOnly
    \/ \E c \in Callers, s \in ClockServices : StartClockCall(c, s) /\ GatewaysOnly
    \/ \E c \in Callers : GetValidAccessToken(c, ClockTokenResponses) /\ GatewaysOnly
    \/ \E c \in Callers : FirstRequest(c, ClockData) /\ GatewaysOnly
    \/ \E c \in Callers : Refresh(c, ClockTokenResponses) /\ GatewaysOnly
    \/ \E c \in Callers : Retry(c, ClockData) /\ GatewaysOnly

SpecClock == Init /\ [][NextClock]_vars

\* ================================================================ claims
\* The 401-triggered exchange of caller c's call returned a token.
Refreshed(c) ==
    /\ first[c].kind = "http" /\ first[c].status = HTTP_401
    /\ Len(exchanged[c]) = (IF hit[c] THEN 1 ELSE 2)

\* The 401-triggered exchange of caller c's call failed.
RefreshFailed(c) ==
    /\ first[c].kind = "http" /\ first[c].status = HTTP_401
    /\ token_requests[c] = (IF hit[c] THEN 1 ELSE 2)
    /\ Len(exchanged[c]) = token_requests[c] - 1

\* The guarded request of caller c's call is over.
GuardedOver(c) == outcome[c].kind # "none"

\* C1: when the first data response is 401 and the token refresh succeeds, the
\* guarded request is issued exactly twice, the second time with the refreshed
\* token, and its outcome is the outcome of the retry: success with the retry's
\* body exactly when the retry's response passes the gateway's checks, failure
\* with the retry's status otherwise.
C1_RetryOnceOutcomeOfRetry ==
    \A c \in Callers :
        (Refreshed(c) /\ GuardedOver(c)) =>
            /\ data_requests[c] = 2
            /\ Len(sent[c]) = 2
            /\ sent[c][2] = exchanged[c][Len(exchanged[c])]
            /\ outcome[c].kind \in {"ok", "fail"}
            /\ outcome[c].kind = "ok" <=>
                  /\ last[c].kind = "http"
                  /\ last[c].status \in 200..299
                  /\ ~(svc[c] = "books2" /\ CodeError(last[c]))
            /\ outcome[c].kind = "ok" => outcome[c].data = last[c]
            /\ (outcome[c].kind = "fail" /\ last[c].kind = "http"
                    /\ last[c].status \notin 200..299) =>
                  outcome[c].upstream_status = <<last[c].status>>
            /\ svc[c] # "workdrive" => result[c] = outcome[c]

\* C1 witness: a call whose first response was 401 ended in success on the retry.
C1_Witness ==
    \E c \in Callers :
        /\ Refreshed(c) /\ pc[c] = "done"
        /\ data_requests[c] = 2
        /\ result[c].kind = "ok"

\* C2: a gateway call issues at most two requests of its guarded data request
\* and at most two token-endpoint requests; when the retry is answered with 401
\* too, the call is over and has failed with an upstream-call error.
C2_BoundedAtOneRetry ==
    \A c \in Callers :
        /\ data_requests[c] <= 2
        /\ token_requests[c] <= 2
        /\ files_requests[c] <= 1
        /\ svc[c] # "workdrive" => files_requests[c] = 0
        /\ (data_requests[c] = 2 /\ last[c].kind = "http" /\ last[c].status = HTTP_401) =>
              /\ pc[c] = "done"
              /\ result[c].kind = "fail"
              /\ result[c].source = "http"
              /\ result[c].upstream_status = <<HTTP_401>>

\* C2 witness: the refreshed token was rejected too.
C2_Witness ==
    \E c \in Callers :
        /\ data_requests[c] = 2 /\ token_requests[c] = 2
        /\ last[c].kind = "http" /\ last[c].status = HTTP_401
        /\ pc[c] = "done"

\* An application-level error in a parsed 2xx body: a non-zero `code`, or
\* a non-empty `errors`.
AppError(r) == CodeError(r) \/ r.errors

\* C7: a first data response that is non-2xx and not 401 fails the call with an
\* upstream-call error carrying the upstream status code and body, with no
\* token-endpoint request after it, no retry, and the token cache as it was.
C7_FirstFailureCarriesStatusAndBody ==
    \A c \in Callers :
        (first[c].kind = "http" /\ first[c].status \notin 200..299
                /\ first[c].status # HTTP_401) =>
            /\ pc[c] = "done"
            /\ result[c].kind = "fail"
            /\ result[c].upstream_status = <<first[c].status>>
            /\ result[c].upstream_body = <<last[c].body>>
            /\ data_requests[c] = 1
            /\ token_requests[c] = (IF hit[c] THEN 0 ELSE 1)
            /\ token_manager[svc[c]] = cache0[c]

\* C8: a transport failure on the first data request or on the retry ends the
\* call in an upstream-call error; no data request and no token request follows
\* it.
C8_TransportFailureNotRetried ==
    \A c \in Callers :
        /\ last[c].kind = "neterr" =>
              /\ pc[c] = "done"
              /\ result[c].kind = "fail"
              /\ result[c].source = "transport"
              /\ data_requests[c] = Len(sent[c])
              /\ files_requests[c] = 0
              /\ first[c].kind = "neterr" =>
                    /\ data_requests[c] = 1
                    /\ token_requests[c] = (IF hit[c] THEN 0 ELSE 1)
              /\ first[c].kind # "neterr" =>
                    /\ data_requests[c] = 2
                    /\ Refreshed(c)
                    /\ token_requests[c] = Len(exchanged[c])
        /\ files_response[c].kind = "neterr" =>
              /\ pc[c] = "done"
              /\ result[c].kind = "fail"
              /\ result[c].source = "transport"
              /\ files_requests[c] = 1

\* C8 witness: the retry after a 401 met a transport failure.
C8_Witness ==
    \E c \in Callers :
        /\ first[c].kind = "http" /\ first[c].status = HTTP_401
        /\ last[c].kind = "neterr"
        /\ data_requests[c] = 2
        /\ pc[c] = "done"

\* C9: in every gateway a 2xx response whose parsed body carries an
\* application-level error fails the call; such a body is never accepted, neither
\* as the returned payload nor as the folder document the file listing starts
\* from.
C9_AppErrorNeverSuccess ==
    \A c \in Callers :
        /\ result[c].kind = "ok" => ~AppError(last[c]) /\ ~AppError(files_response[c])
        /\ pc[c] = "files" => ~AppError(last[c])

\* C10: the retry is issued only after the token exchange triggered by the 401
\* has succeeded, and carries the token that exchange returned; when that
\* exchange fails no retry is issued and the call fails.
C10_RefreshThenRetry ==
    \A c \in Callers :
        /\ (data_requests[c] = 2 \/ pc[c] = "retry") =>
              /\ Refreshed(c)
              /\ token_requests[c] = Len(exchanged[c])
              /\ access_token[c] = exchanged[c][Len(exchanged[c])]
        /\ data_requests[c] = 2 =>
              /\ Len(sent[c]) = 2
              /\ sent[c][2] = exchanged[c][Len(exchanged[c])]
        /\ RefreshFailed(c) =>
              /\ pc[c] = "done"
              /\ data_requests[c] = 1
              /\ Len(sent[c]) = 1
              /\ result[c] = AuthError

\* C10 witness: the retry carried a token other than the rejected one.
C10_Witness ==
    \E c \in Callers :
        /\ Refreshed(c)
        /\ data_requests[c] = 2
        /\ sent[c][1] # sent[c][2]

\* C3: a get_valid_access_token call made while is_token_valid is true issues
\* no token-endpoint request, leaves the cache as it is and returns the cached
\* token; so the calls made inside the window that one of them opened issued
\* exactly one token-endpoint request, the opening one.
C3_CachedTokenNotReRequested ==
    /\ \A c \in Callers :
          /\ (hit[c] /\ pc[c] = "request") =>
                /\ token_requests[c] = 0
                /\ exchanged[c] = <<>>
                /\ access_token[c] = cache_in[c].access_token
                /\ token_manager[svc[c]] = cache_in[c]
          /\ (hit[c] /\ first[c].status # HTTP_401) => token_requests[c] = 0
          /\ (hit[c] /\ Len(sent[c]) >= 1) => sent[c][1] = cache_in[c].access_token
    /\ \A s \in Services : window[s].calls >= 1 => window[s].requests = 1

\* C3 witness: a second call inside the window has just reused the token.
C3_Witness ==
    \E c \in Callers :
        /\ hit[c] /\ pc[c] = "request"
        /\ window[svc[c]].calls >= 2
        /\ now > last_set[svc[c]][1].at

\* C4 as stated: false before any successful acquire, true immediately after
\* one, and true for at least expires_in - 300 seconds, for every expires_in.
C4_ValidAfterEveryAcquire ==
    \A s \in Services :
        /\ last_set[s] = <<>> => ~IsTokenValid(token_manager[s], now)
        /\ (last_set[s] # <<>> /\ last_set[s][1].token # EmptyToken) =>
              /\ now = last_set[s][1].at => IsTokenValid(token_manager[s], now)
              /\ now - last_set[s][1].at < last_set[s][1].expires_in - SafetyMargin =>
                    IsTokenValid(token_manager[s], now)

\* C4 amended: is_token_valid is false before any successful acquire; after an
\* acquire that stored a non-empty token with expires_in > 300 it is true at
\* once and at every clock reading less than expires_in - 300 seconds after the
\* acquire; after an acquire with expires_in <= 300, or one that stored an empty
\* token, it is false from the moment of the acquire.
C4_ValidForLifetimeMinusMargin ==
    \A s \in Services :
        /\ last_set[s] = <<>> => ~IsTokenValid(token_manager[s], now)
        /\ last_set[s] # <<>> =>
              LET ls == last_set[s][1] IN
              /\ (ls.token # EmptyToken /\ ls.expires_in > SafetyMargin
                      /\ now - ls.at < ls.expires_in - SafetyMargin) =>
                    IsTokenValid(token_manager[s], now)
              /\ (ls.token = EmptyToken \/ ls.expires_in <= SafetyMargin) =>
                    ~IsTokenValid(token_manager[s], now)

\* C4 witness: time has passed since an acquire and the token is still valid.
C4_Witness ==
    \E s \in Services :
        /\ last_set[s] # <<>>
        /\ last_set[s][1].expires_in \in ExpiresInValues
        /\ last_set[s][1].at > 0
        /\ now > last_set[s][1].at
        /\ IsTokenValid(token_manager[s], now)

Max(a, b) == IF a >= b THEN a ELSE b

\* C5: the expiry a successful acquire stores is now + max(expires_in, 1) - 300
\* floored at now, so it is never earlier than the time of the acquire.
C5_ExpiryNeverBeforeAcquire ==
    \A s \in Services :
        last_set[s] # <<>> =>
            LET ls == last_set[s][1] IN
            /\ token_manager[s].token_expiry # <<>>
            /\ token_manager[s].token_expiry[1] >= ls.at
            /\ token_manager[s].token_expiry[1] =
                  Max(ls.at, ls.at + Max(ls.expires_in, 1) - SafetyMargin)

\* C6: is_token_valid is true exactly when the cached token is non-empty and
\* the clock is strictly before the stored expiry, which is the time the token
\* was stored plus the reported lifetime minus 300 seconds; a token reported
\* valid is more than 300 seconds away from the end of its lifetime.
C6_ValidIffBeforeExpiry ==
    \A s \in Services :
        /\ last_set[s] = <<>> =>
              /\ token_manager[s] = EmptyManager
              /\ ~IsTokenValid(token_manager[s], now)
        /\ last_set[s] # <<>> =>
              LET ls == last_set[s][1] IN
              /\ token_manager[s].access_token = ls.token
              /\ token_manager[s].token_expiry = <<ls.at + ls.expires_in - 300>>
              /\ IsTokenValid(token_manager[s], now) <=>
                    (ls.token # EmptyToken /\ now < ls.at + ls.expires_in - 300)
              /\ IsTokenValid(token_manager[s], now) => now + 300 < ls.at + ls.expires_in

\* C6 witness: the clock has reached the stored expiry of a non-empty token.
C6_Witness ==
    \E s \in Services :
        /\ last_set[s] # <<>>
        /\ last_set[s][1].token # EmptyToken
        /\ now > last_set[s][1].at
        /\ token_manager[s].token_expiry = <<now>>

\* A token response that is no successful exchange: the request failed in
\* transport, the status is not 2xx, or the body has no access_token.
ExchangeFailed(r) ==
    \/ r.kind = "neterr"
    \/ r.status \notin 200..299
    \/ r.access_token = NoneToken

\* Caller c's step is get_new_access_token with the token endpoint answering r.
AcquireStep(c, r) ==
    \/ /\ pc[c] = "token"
       /\ ~IsTokenValid(token_manager[svc[c]], now)
       /\ GetNewAccessToken(c, r, "request")
    \/ /\ pc[c] = "refresh"
       /\ GetNewAccessToken(c, r, "retry")


\* C27: once the upstream has answered 401 to a token, the token is not the
\* first-attempt token of a later call on the service; in particular, when the
\* exchange that the 401 triggered has failed, the service's token manager no
\* longer reports the rejected token as valid (a later call would take it
\* from there as its first-attempt token).
C27_RejectedTokenNotCachedValid ==
    \A c \in Callers :
        pc[c] = "done" /\ RefreshFailed(c) =>
            ~ /\ token_manager[svc[c]].access_token = sent[c][1]
              /\ IsTokenValid(token_manager[svc[c]], now)

\* C11: a token exchange whose answer is a transport failure, a non-2xx status
\* or a body without access_token ends the call with the auth error: the step
\* issues exactly one token-endpoint request, no data request, stores nothing,
\* and leaves every token cache as it was before the attempt.
C11_FailedAcquireLeavesCache ==
    [][\A c \in Callers : \A r \in TokenResponses \cup ClockTokenResponses :
          (ExchangeFailed(r) /\ AcquireStep(c, r)) =>
              /\ result'[c] = AuthError
              /\ pc'[c] = "done"
              /\ token_manager' = token_manager
              /\ last_set' = last_set
              /\ exchanged'[c] = exchanged[c]
              /\ token_requests'[c] = token_requests[c] + 1
              /\ data_requests'[c] = data_requests[c]]_vars

\* C11 witness: the exchange after a 401 failed while the cache held a valid
\* token, and the cache still holds that token.
C11_Witness ==
    \E c \in Callers :
        /\ RefreshFailed(c) /\ pc[c] = "done"
        /\ result[c] = AuthError
        /\ hit[c]
        /\ cache0[c].access_token \in Tokens
        /\ token_manager[svc[c]] = cache0[c]

\* C14: every upstream data request is guarded alike: when the file-listing
\* request of fetch_workdrive_invoice_numbers is answered 401, the token is
\* refreshed and the listing is requested once more before the call ends.
C14_FilesRequestGuarded ==
    \A c \in Callers :
        (/\ pc[c] = "done"
         /\ files_requests[c] >= 1
         /\ files_response[c].kind = "http"
         /\ files_response[c].status = HTTP_401) =>
            /\ files_requests[c] = 2
            /\ token_requests[c] >= 1

\* The token service s's cache holds was stored by an exchange made for s.
OwnToken(s) ==
    token_manager[s].access_token =
        (IF last_set[s] = <<>> THEN NoneToken ELSE last_set[s][1].token)

\* The tokens caller c's call may put on a request: the one its service's
\* cache held when the call began, and those its own exchanges returned.
OwnTokens(c) ==
    {cache_in[c].access_token} \cup {exchanged[c][i] : i \in 1..Len(exchanged[c])}

\* C15: the gateways share nothing: a step changes the token cache of no
\* service but the one whose gateway is acquiring a token, each cache holds
\* the token last acquired for its own service, and every data request
\* carries a token of the cache or of the exchanges of the service called.
C15_ServicesIsolated ==
    [][/\ \A s \in Services :
            token_manager'[s] # token_manager[s] =>
                \E c \in Callers : svc[c] = s /\ pc[c] \in {"token", "refresh"}
       /\ \A s \in Services : OwnToken(s)'
       /\ \A c \in Callers : \A i \in 1..Len(sent'[c]) : sent'[c][i] \in OwnTokens(c)'
      ]_vars

\* C15 witness: two services hold different tokens, and a request to one of
\* them went out with the token of its own cache.
C15_Witness ==
    \E c \in Callers : \E s \in Services \ {svc[c]} :
        /\ token_manager[s].access_token \in Tokens
        /\ token_manager[svc[c]].access_token \in Tokens \ {token_manager[s].access_token}
        /\ hit[c] /\ Len(sent[c]) = 1
        /\ sent[c][1] = token_manager[svc[c]].access_token

\* ============================================ threads of zoho_books.py ===
\* The token functions of zoho_books.py as the threads of the pool run them:
\* every read and every write of token_manager is a step of its own, and
\* another thread may run between any two of them.
ThreadId(t) == <<t, thread[t].sets>>

\* A thread enters make_zoho_books_request: get_valid_access_token is called.
Enter(t) ==
    /\ thread[t].pc = "idle"
    /\ thread' = [thread EXCEPT ![t].pc = "valid"]
    /\ UNCHANGED <<gateway_vars, writer, completed, handler_vars, store_vars>>

\* token_manager.is_token_valid(): the pair is read as it stands.
IsTokenValidRead(t) ==
    LET valid == IsTokenValid(token_manager["books"], now) IN
    /\ thread[t].pc = "valid"
    /\ thread' = [thread EXCEPT ![t].seen = <<writer>>,
                                ![t].missed = ~valid,
                                ![t].pc = IF valid THEN "return" ELSE "post"]
    /\ UNCHANGED <<gateway_vars, writer, completed, handler_vars, store_vars>>

\* return token_manager.access_token
ReturnCached(t) ==
    /\ thread[t].pc = "return"
    /\ thread' = [thread EXCEPT ![t].access_token = token_manager["books"].access_token,
                                ![t].pc = "request"]
    /\ UNCHANGED <<gateway_vars, writer, completed, handler_vars, store_vars>>

\* get_new_access_token up to the call of set_token.
PostToken(t) ==
    /\ thread[t].pc = "post"
    /\ \E r \in ThreadTokenResponses :
          thread' = [thread EXCEPT
              ![t].data = r,
              ![t].sets = IF AcquireOk("books", r) THEN @ + 1 ELSE @,
              ![t].pc = IF AcquireOk("books", r) THEN "set_token" ELSE "done"]
    /\ UNCHANGED <<gateway_vars, writer, completed, handler_vars, store_vars>>

\* set_token: self.access_token = access_token
SetTokenAccess(t) ==
    LET r == thread[t].data
        m == SetToken(token_manager["books"], r.access_token, ExpiresIn(r), now) IN
    /\ thread[t].pc = "set_token"
    /\ token_manager' = [token_manager EXCEPT !["books"].access_token = m.access_token]
    /\ writer' = [writer EXCEPT !.access_token = ThreadId(t)]
    /\ thread' = [thread EXCEPT ![t].pc = "set_expiry"]
    /\ UNCHANGED <<now, last_set, window, caller_vars, completed, handler_vars, store_vars>>

\* set_token: self.token_expiry = datetime.now() + timedelta(...), and the
\* return of get_new_access_token with the token of its own exchange.
SetTokenExpiry(t) ==
    LET r == thread[t].data
        m == SetToken(token_manager["books"], r.access_token, ExpiresIn(r), now) IN
    /\ thread[t].pc = "set_expiry"
    /\ token_manager' = [token_manager EXCEPT !["books"].token_expiry = m.token_expiry]
    /\ last_set' = [last_set EXCEPT !["books"] =
          <<[at |-> now, expires_in |-> ExpiresIn(r), token |-> r.access_token]>>]
    /\ writer' = [writer EXCEPT !.token_expiry = ThreadId(t)]
    /\ completed' = <<m>>
    /\ thread' = [thread EXCEPT ![t].stored = <<m>>,
                                ![t].access_token = r.access_token,
                                ![t].pc = IF thread[t].got401 THEN "retry" ELSE "request"]
    /\ UNCHANGED <<now, window, caller_vars, handler_vars, store_vars>>

\* The data request: on 401 get_new_access_token, otherwise the call ends.
ThreadRequest(t) ==
    /\ thread[t].pc = "request"
    /\ \E status \in Statuses :
          thread' = [thread EXCEPT
              ![t].got401 = (status = HTTP_401),
              ![t].pc = IF status = HTTP_401 THEN "post" ELSE "done"]
    /\ UNCHANGED <<gateway_vars, writer, completed, handler_vars, store_vars>>

\* The retried data request.
ThreadRetry(t) ==
    /\ thread[t].pc = "retry"
    /\ thread' = [thread EXCEPT ![t].pc = "done"]
    /\ UNCHANGED <<gateway_vars, writer, completed, handler_vars, store_vars>>

\* Two requests served at once by make_zoho_books_request.
NextThreads ==
    \/ Tick /\ UNCHANGED <<thread_vars, handler_vars, store_vars>>
    \/ \E t \in Threads : Enter(t)
    \/ \E t \in Threads : IsTokenValidRead(t)
    \/ \E t \in Threads : ReturnCached(t)
    \/ \E t \in Threads : PostToken(t)
    \/ \E t \in Threads : SetTokenAccess(t)
    \/ \E t \in Threads : SetTokenExpiry(t)
    \/ \E t \in Threads : ThreadRequest(t)
    \/ \E t \in Threads : ThreadRetry(t)

SpecThreads == Init /\ [][NextThreads]_vars

\* No thread is inside set_token.
AtRest == \A t \in Threads : thread[t].pc \notin {"set_token", "set_expiry"}

\* C12: the cached pair is read and written as one: whenever no set_token is
\* under way the token and the expiry of zoho_books.py's token_manager were
\* written by the same set_token, and the pair is_token_valid reads is the
\* pair of one set_token.
C12_PairAtomic ==
    /\ AtRest => writer.access_token = writer.token_expiry
    /\ \A t \in Threads :
          thread[t].seen # <<>> =>
              thread[t].seen[1].access_token = thread[t].seen[1].token_expiry

\* C13: when the threads that found the cache empty or expired have all
\* refreshed it, each goes on with the token of its own exchange and the
\* cache holds the token and the expiry of the refresh that finished last.
C13_LastRefreshWins ==
    (/\ \A t \in Threads :
           /\ thread[t].missed
           /\ thread[t].stored # <<>>
           /\ thread[t].pc = "request"
     /\ AtRest) =>
        /\ \A t \in Threads : thread[t].access_token = thread[t].stored[1].access_token
        /\ token_manager["books"] = completed[1]

\* ==================================================== check_invoices ===
\* Text the code takes apart (file names, currencies, statuses, the e-mail
\* address) is a sequence of characters; dates are strings parsed by table.
Lowers == <<"a", "b", "c", "d", "e", "f", "g", "h", "i", "j", "k", "l", "m",
            "n", "o", "p", "q", "r", "s", "t", "u", "v", "w", "x", "y", "z">>
Uppers == <<"A", "B", "C", "D", "E", "F", "G", "H", "I", "J", "K", "L", "M",
            "N", "O", "P", "Q", "R", "S", "T", "U", "V", "W", "X", "Y", "Z">>
Whitespace == {" ", "\t", "\n"}

\* Two characters outside ASCII, each written by its name: U+00DF, whose
\* upper case is the two letters SS, and U+017F, whose upper case is S and
\* which lower() leaves alone.
SHARP_S == "sharp s"
LONG_S == "long s"

\* str.upper() and str.lower(), character by character; the upper case of a
\* character is a string of one or two characters.
UpperChar(ch) ==
    IF ch = SHARP_S THEN <<"S", "S">>
    ELSE IF ch = LONG_S THEN <<"S">>
    ELSE IF \E i \in DOMAIN Lowers : Lowers[i] = ch
    THEN <<Uppers[CHOOSE i \in DOMAIN Lowers : Lowers[i] = ch]>> ELSE <<ch>>
LowerChar(ch) ==
    IF \E i \in DOMAIN Uppers : Uppers[i] = ch
    THEN Lowers[CHOOSE i \in DOMAIN Uppers : Uppers[i] = ch] ELSE ch
Upper(str) ==
    LET up[i \in 0..Len(str)] ==
            IF i = 0 THEN <<>> ELSE up[i - 1] \o UpperChar(str[i]) IN
    up[Len(str)]
Lower(str) == [i \in 1..Len(str) |-> LowerChar(str[i])]

\* str.strip()
Strip(str) ==
    LET inked == {i \in 1..Len(str) : str[i] \notin Whitespace} IN
    IF inked = {} THEN <<>>
    ELSE SubSeq(str, CHOOSE i \in inked : \A j \in inked : i <= j,
                     CHOOSE i \in inked : \A j \in inked : i >= j)

\* str.find(pat, start): the position of the first occurrence of pat at or
\* after position start, positions counted from 1; 0 is Python's -1.
Find(str, pat, start) ==
    LET at == {i \in start..(Len(str) - Len(pat) + 1) :
                  SubSeq(str, i, i + Len(pat) - 1) = pat} IN
    IF at = {} THEN 0 ELSE CHOOSE i \in at : \A j \in at : i <= j

\* `x in list`
Member(x, list) == \E i \in 1..Len(list) : list[i] = x

\* datetime.strptime(s, "%Y-%m-%d").date() as the day of January 2024;
\* <<>> is the ValueError of a string that is no such date.
ParseDate(s) ==
    CASE s = "2024-01-05" -> <<5>>
      [] s = "2024-01-10" -> <<10>>
      [] s = "2024-01-20" -> <<20>>
      [] OTHER -> <<>>

KSH == <<"k", "s", "h">>
KENYAN_SHILLINGS == <<"k", "e", "n", "y", "a", "n", " ",
                      "s", "h", "i", "l", "l", "i", "n", "g", "s">>
DOLLARS == <<"d", "o", "l", "l", "a", "r", "s">>
KES == <<"K", "E", "S">>
USD == <<"U", "S", "D">>
PAID == <<"p", "a", "i", "d">>
OVERDUE == <<"o", "v", "e", "r", "d", "u", "e">>
UNPAID == <<"u", "n", "p", "a", "i", "d">>
SENT == <<"s", "e", "n", "t">>
INV == <<"I", "N", "V">>

\* normalize_currency
NormalizeCurrency(selected_currency) ==
    IF selected_currency = <<>> THEN <<>>
    ELSE LET selected_cur_lower == Lower(selected_currency) IN
         IF selected_cur_lower \in {KSH, KENYAN_SHILLINGS} THEN KES
         ELSE IF selected_cur_lower \in {DOLLARS, Lower(USD)} THEN USD
         ELSE Upper(selected_currency)

\* The date test of check_invoices: an invoice outside the range is dropped; a
\* ValueError of any strptime leaves the invoice in.
DateKept(inv_date, date_from, date_to) ==
    IF (date_from # "" \/ date_to # "") /\ inv_date # ""
    THEN LET d == ParseDate(inv_date)
             f == ParseDate(date_from)
             t == ParseDate(date_to) IN
         IF d = <<>> THEN TRUE
         ELSE IF date_from # "" /\ f = <<>> THEN TRUE
         ELSE IF date_from # "" /\ d[1] < f[1] THEN FALSE
         ELSE IF date_to # "" /\ t = <<>> THEN TRUE
         ELSE IF date_to # "" /\ d[1] > t[1] THEN FALSE
         ELSE TRUE
    ELSE TRUE

\* Variant of ShouldInclude in which "unpaid" selects the status unpaid only.
ShouldIncludeUnpaidOnly(selected_statuses, inv_status) ==
    \E i \in 1..Len(selected_statuses) :
        LET status_lower == Lower(selected_statuses[i]) IN
        \/ status_lower = PAID /\ inv_status = PAID
        \/ status_lower = OVERDUE /\ inv_status = OVERDUE
        \/ status_lower = UNPAID /\ inv_status = UNPAID

\* should_include after the loop over selected_statuses
ShouldInclude(selected_statuses, inv_status) ==
    \E i \in 1..Len(selected_statuses) :
        LET status_lower == Lower(selected_statuses[i]) IN
        \/ status_lower = PAID /\ inv_status = PAID
        \/ status_lower = OVERDUE /\ inv_status = OVERDUE
        \/ status_lower = UNPAID /\ inv_status \in {SENT, UNPAID}

\* Does the loop of check_invoices append the number of invoice inv?
KeepInvoice(inv, p) ==
    LET api_currency_code == NormalizeCurrency(p.currency) IN
    /\ ~(api_currency_code # <<>> /\ inv.currency_code # api_currency_code)
    /\ DateKept(inv.date, p.date_from, p.date_to)
    /\ p.statuses = <<>> \/ ShouldInclude(p.statuses, inv.status)

\* invoice_numbers after the loop over all_invoices
FilterInvoices(all_invoices, p) ==
    LET kept[i \in 0..Len(all_invoices)] ==
            IF i = 0 THEN <<>>
            ELSE IF KeepInvoice(all_invoices[i], p)
                 THEN Append(kept[i - 1], all_invoices[i].invoice_number)
                 ELSE kept[i - 1] IN
    kept[Len(all_invoices)]

\* The candidate a file name yields in fetch_workdrive_invoice_numbers; <<>>
\* when it yields none.
InvoiceNumberOf(file_name) ==
    LET upper_name == Upper(file_name)
        start_index == Find(upper_name, INV, 1)
        dot == IF start_index = 0 THEN 0 ELSE Find(upper_name, <<".">>, start_index)
        end_index == IF dot = 0 THEN Len(file_name) + 1 ELSE dot IN
    IF start_index = 0 THEN <<>>
    ELSE Strip(SubSeq(file_name, start_index, end_index - 1))

\* invoice_numbers after the loop over files_data
FileInvoiceNumbers(files_data) ==
    LET found[i \in 0..Len(files_data)] ==
            IF i = 0 THEN <<>>
            ELSE IF files_data[i].is_folder
                    \/ InvoiceNumberOf(files_data[i].name) = <<>>
                 THEN found[i - 1]
                 ELSE Append(found[i - 1], InvoiceNumberOf(files_data[i].name)) IN
    found[Len(files_data)]

\* Variant of Reconcile that lists a missing number once.
ReconcileOnce(invoice_numbers, file_invoice_numbers) ==
    LET count[i \in 0..Len(invoice_numbers)] ==
            IF i = 0
            THEN [matched_count |-> 0, missing_count |-> 0, missing_list |-> <<>>]
            ELSE LET book_inv == invoice_numbers[i] IN
                 IF Member(book_inv, file_invoice_numbers)
                 THEN [count[i - 1] EXCEPT !.matched_count = @ + 1]
                 ELSE IF Member(book_inv, count[i - 1].missing_list)
                 THEN count[i - 1]
                 ELSE [count[i - 1] EXCEPT !.missing_count = @ + 1,
                                           !.missing_list = Append(@, book_inv)] IN
    count[Len(invoice_numbers)]

\* matched_count, missing_count and missing_list after the loop over
\* invoice_numbers
Reconcile(invoice_numbers, file_invoice_numbers) ==
    LET count[i \in 0..Len(invoice_numbers)] ==
            IF i = 0
            THEN [matched_count |-> 0, missing_count |-> 0, missing_list |-> <<>>]
            ELSE LET book_inv == invoice_numbers[i] IN
                 IF Member(book_inv, file_invoice_numbers)
                 THEN [count[i - 1] EXCEPT !.matched_count = @ + 1]
                 ELSE [count[i - 1] EXCEPT !.missing_count = @ + 1,
                                           !.missing_list = Append(@, book_inv)] IN
    count[Len(invoice_numbers)]

\* ------------------------------------------- what the upstreams hold ---
INV1 == <<"I", "N", "V", "1">>
INV2 == <<"I", "N", "V", "2">>
INV3 == <<"I", "N", "V", "3">>
PDF == <<".", "p", "d", "f">>

\* Entries of data["invoices"]: paid, sent and overdue, in two currencies, one
\* with a date that is none.
InvoicePool ==
    {[invoice_number |-> INV1, status |-> PAID, currency_code |-> KES,
      date |-> "2024-01-05"],
     [invoice_number |-> INV2, status |-> SENT, currency_code |-> KES,
      date |-> "2024-01-10"],
     [invoice_number |-> INV3, status |-> OVERDUE, currency_code |-> USD,
      date |-> "10 Jan"]}

\* The lists the accounting service may hold, duplicates included.
InvoiceLists == UNION {[1..n -> InvoicePool] : n \in 0..MaxInvoices}

File(name) == [name |-> name, is_folder |-> FALSE]
Folder(name) == [name |-> name, is_folder |-> TRUE]

\* The listings the storage folder may hold: nothing; one scan; a scan, a
\* folder, a lower-case name and a file that names no invoice; no file that
\* names an invoice; a name with two dots and a scan listed twice.
FileLists ==
    {<<>>,
     <<File(INV1 \o PDF)>>,
     <<File(INV1 \o PDF), Folder(INV2), File(<<"x", "-", "i", "n", "v", "3">> \o PDF),
       File(<<"r", "e", "a", "d", "m", "e">>)>>,
     <<File(<<"r", "e", "a", "d", "m", "e">>)>>,
     <<File(INV3 \o <<".", "b">> \o PDF), File(INV2 \o PDF), File(INV2 \o PDF)>>}

\* WorkdriveCheckRequest bodies: no filter and no recipient; a recipient; a
\* blank recipient and a status filter; a recipient, a currency and a first day.
Payloads ==
    {NoPayload,
     [NoPayload EXCEPT !.email = <<"a", "@", "b">>],
     [NoPayload EXCEPT !.email = <<" ">>, !.statuses = <<<<"U", "n", "p", "a", "i", "d">>>>],
     [NoPayload EXCEPT !.email = <<" ", "a", "@", "b">>, !.currency = KSH,
                       !.date_from = "2024-01-10"]}

\* What send_email does: returns True, or raises because the API key or the
\* sender is not configured, the mail service answers >= 400, or the request
\* fails in transport.
MailOutcomes == {"sent", "no_api_key", "no_sender", "rejected", "transport"}

\* The upstream answers while check_invoices and the endpoints run.
HandlerTokenResponses ==
    {r \in TokenResponses :
        r.kind = "neterr" \/ (r.access_token = "t1" /\ r.expires_in = <<>>)}
HandlerDataResponses(s) ==
    {r \in DataResponses(s) :
        /\ r.body = "b1"
        /\ r.status \in {0, 200, HTTP_401}
        /\ r.code = <<>> \/ (s = "books2" /\ r.code = <<57>>)}
HandlerData == [s \in Services |-> HandlerDataResponses(s)]

\* ------------------------------------------------------ the handler ---
\* raise HTTPException(status_code=400, detail="ZOHO_BOOKS_ORGANIZATION_ID not set")
ConfigError ==
    [kind |-> "error", status_code |-> HTTP_400, error |-> NoResult, body |-> <<>>]

\* The HTTPException of a gateway function leaves the handler as it is.
Raised(res) ==
    [kind |-> "error", status_code |-> res.status_code, error |-> res, body |-> <<>>]

\* Variant of Configured without the test of the organization.
ConfiguredUnchecked(s) == TRUE

\* ZOHO_BOOKS_2_CONFIG.get("organization_id") / ZOHO_CONFIG.get("organization_id")
Configured(s) == organization_id[s]

\* Variant of FetchFailed in which the handler does not see the failure.
FetchFailedUnseen(res) == FALSE

\* The gateway function raised.
FetchFailed(res) == res.kind = "fail"

\* Variant of ShouldMail that looks at the recipient only.
ShouldMailRecipient(file_invoice_numbers, recipient_email) ==
    recipient_email # <<>>

\* if file_invoice_numbers and recipient_email:
ShouldMail(file_invoice_numbers, recipient_email) ==
    file_invoice_numbers # <<>> /\ recipient_email # <<>>

\* The dict check_invoices returns.
ReconciliationResult(p, invoice_numbers, file_invoice_numbers, email_sent) ==
    LET r == Reconcile(invoice_numbers, file_invoice_numbers) IN
    [success |-> TRUE,
     currency |-> NormalizeCurrency(p.currency),
     statuses |-> p.statuses,
     books_invoices |-> Len(invoice_numbers),
     workdrive_files |-> Len(file_invoice_numbers),
     matched |-> r.matched_count,
     missing |-> r.missing_count,
     missing_list |-> r.missing_list,
     email_sent |-> email_sent,
     date_from |-> p.date_from,
     date_to |-> p.date_to]

Returned(body) == [kind |-> "ok", status_code |-> 200, error |-> NoResult, body |-> <<body>>]

\* missing_list_text: the first 20 missing numbers and the count of the rest.
\* check_invoices computes it and hands it to nothing.
MissingListText(missing_count, missing_list) ==
    [items |-> IF Len(missing_list) <= TextListLimit THEN missing_list
               ELSE SubSeq(missing_list, 1, TextListLimit),
     note |-> IF missing_count > TextListLimit
              THEN <<[text |-> "... +", count |-> <<missing_count - TextListLimit>>]>>
              ELSE <<>>]

\* The report handed to send_email: the counts, and the first 40 missing
\* numbers with the note "... more omitted" when there are more.
Report(p, invoice_numbers, file_invoice_numbers) ==
    LET r == Reconcile(invoice_numbers, file_invoice_numbers) IN
    [to |-> Strip(p.email),
     books_invoices |-> Len(invoice_numbers),
     workdrive_files |-> Len(file_invoice_numbers),
     matched |-> r.matched_count,
     missing |-> r.missing_count,
     items |-> IF Len(r.missing_list) <= HtmlListLimit THEN r.missing_list
               ELSE SubSeq(r.missing_list, 1, HtmlListLimit),
     note |-> IF r.missing_count > HtmlListLimit
              THEN <<[text |-> "... more omitted", count |-> <<>>]>>
              ELSE <<>>]

\* check_invoices from its entry to the call of fetch_books_invoices: the
\* configuration is checked before anything is fetched.
CheckInvoices(c) ==
    /\ handler[c].pc \in {"idle", "done"}
    /\ IF Configured("books2")
       THEN /\ BeginCall(c, "books2")
            /\ handler' = [handler EXCEPT ![c] =
                  [IdleHandler EXCEPT !.name = "check_invoices",
                                      !.payload = handler[c].payload,
                                      !.pc = "books",
                                      !.fetched = <<"books2">>]]
       ELSE /\ UNCHANGED gateway_vars
            /\ handler' = [handler EXCEPT ![c] =
                  [IdleHandler EXCEPT !.name = "check_invoices",
                                      !.payload = handler[c].payload,
                                      !.pc = "done",
                                      !.response = ConfigError]]
    /\ UNCHANGED <<thread_vars, clock, db_vars, request, created, deleted,
                   organization_id, upstream>>

\* fetch_books_invoices is over: its exception is the handler's; otherwise the
\* invoices are filtered and fetch_workdrive_invoice_numbers is called.
BooksFetched(c) ==
    /\ handler[c].name = "check_invoices"
    /\ handler[c].pc = "books"
    /\ pc[c] = "done"
    /\ IF FetchFailed(result[c])
       THEN /\ handler' = [handler EXCEPT ![c].pc = "done",
                                          ![c].results = Append(@, result[c]),
                                          ![c].response = Raised(result[c])]
            /\ UNCHANGED gateway_vars
       ELSE /\ handler' = [handler EXCEPT
                  ![c].pc = "drive",
                  ![c].results = Append(@, result[c]),
                  ![c].fetched = Append(@, "workdrive"),
                  ![c].invoice_numbers =
                      IF result[c].kind = "ok"
                      THEN FilterInvoices(upstream.invoices, handler[c].payload)
                      ELSE <<>>]
            /\ BeginCall(c, "workdrive")
    /\ UNCHANGED <<thread_vars, store_vars, organization_id, upstream>>

\* Variant of DriveFetched that reads the listing only when the token of the
\* storage fetch came from the cache.
DriveFetchedFromCacheOnly(c) ==
    LET h == handler[c]
        numbers == IF result[c].kind = "ok" /\ result[c].data.kind = "http" /\ hit[c]
                   THEN FileInvoiceNumbers(upstream.files) ELSE <<>> IN
    /\ h.name = "check_invoices"
    /\ h.pc = "drive"
    /\ pc[c] = "done"
    /\ IF FetchFailed(result[c])
       THEN handler' = [handler EXCEPT ![c].pc = "done",
                                       ![c].results = Append(@, result[c]),
                                       ![c].response = Raised(result[c])]
       ELSE IF ShouldMail(numbers, Strip(h.payload.email))
       THEN handler' = [handler EXCEPT ![c].pc = "mail",
                                       ![c].results = Append(@, result[c]),
                                       ![c].file_invoice_numbers = numbers]
       ELSE handler' = [handler EXCEPT
                ![c].pc = "done",
                ![c].results = Append(@, result[c]),
                ![c].file_invoice_numbers = numbers,
                ![c].response = Returned(ReconciliationResult(
                                    h.payload, h.invoice_numbers, numbers, FALSE))]
    /\ UNCHANGED <<gateway_vars, thread_vars, store_vars, organization_id, upstream>>

\* fetch_workdrive_invoice_numbers is over: its exception is the handler's;
\* otherwise the numbers are reconciled, and the handler returns unless there
\* is a report to send.
DriveFetched(c) ==
    LET h == handler[c]
        numbers == IF result[c].kind = "ok" /\ result[c].data.kind = "http"
                   THEN FileInvoiceNumbers(upstream.files) ELSE <<>> IN
    /\ h.name = "check_invoices"
    /\ h.pc = "drive"
    /\ pc[c] = "done"
    /\ IF FetchFailed(result[c])
       THEN handler' = [handler EXCEPT ![c].pc = "done",
                                       ![c].results = Append(@, result[c]),
                                       ![c].response = Raised(result[c])]
       ELSE IF ShouldMail(numbers, Strip(h.payload.email))
       THEN handler' = [handler EXCEPT ![c].pc = "mail",
                                       ![c].results = Append(@, result[c]),
                                       ![c].file_invoice_numbers = numbers]
       ELSE handler' = [handler EXCEPT
                ![c].pc = "done",
                ![c].results = Append(@, result[c]),
                ![c].file_invoice_numbers = numbers,
                ![c].response = Returned(ReconciliationResult(
                                    h.payload, h.invoice_numbers, numbers, FALSE))]
    /\ UNCHANGED <<gateway_vars, thread_vars, store_vars, organization_id, upstream>>

\* await send_email(...): whatever it raises is logged, and the handler returns.
SendEmail(c) ==
    LET h == handler[c] IN
    /\ h.name = "check_invoices"
    /\ h.pc = "mail"
    /\ \E o \in MailOutcomes :
          handler' = [handler EXCEPT
              ![c].pc = "done",
              ![c].mails = Append(@, [outcome |-> o,
                                      report |-> Report(h.payload, h.invoice_numbers,
                                                        h.file_invoice_numbers)]),
              ![c].response = Returned(ReconciliationResult(
                                  h.payload, h.invoice_numbers,
                                  h.file_invoice_numbers, o = "sent"))]
    /\ UNCHANGED <<gateway_vars, thread_vars, store_vars, organization_id, upstream>>

\* The configuration, the upstream data and the request body are given.
InitCheck ==
    /\ InitGateways
    /\ InitThreads
    /\ InitStore
    /\ organization_id \in {f \in [Organizations -> BOOLEAN] : f["books"]}
    /\ upstream \in [invoices : InvoiceLists, files : FileLists]
    /\ handler \in {[c \in Callers |-> [IdleHandler EXCEPT !.payload = p]] : p \in Payloads}

\* check_invoices with its two gateway calls and the mail hand-off.
NextCheck ==
    \/ \E c \in Callers : calls[c] + 2 <= MaxCalls /\ CheckInvoices(c) /\ UNCHANGED previous
    \/ \E c \in Callers : GetValidAccessToken(c, HandlerTokenResponses) /\ GatewaysOnly
    \/ \E c \in Callers : FirstRequest(c, HandlerData) /\ GatewaysOnly
    \/ \E c \in Callers : Refresh(c, HandlerTokenResponses) /\ GatewaysOnly
    \/ \E c \in Callers : Retry(c, HandlerData) /\ GatewaysOnly
    \/ \E c \in Callers : FilesRequest(c, HandlerData) /\ GatewaysOnly
    \/ \E c \in Callers : BooksFetched(c)
    \/ \E c \in Callers : DriveFetched(c)
    \/ \E c \in Callers : SendEmail(c)

SpecCheck == InitCheck /\ [][NextCheck]_vars

\* check_invoices has answered caller c.
Answered(c) == handler[c].name = "check_invoices" /\ handler[c].pc = "done"

\* The fields of the dict check_invoices returns.
ResultFields ==
    {"success", "currency", "statuses", "books_invoices", "workdrive_files", "matched",
     "missing", "missing_list", "email_sent", "date_from", "date_to"}

\* C16: with no accounting organization configured check_invoices answers 400,
\* and it has by then issued no token request, no data request and no mail
\* hand-off, and has left every token cache as it was.
C16_ConfigErrorBeforeAnyRequest ==
    \A c \in Callers :
        (handler[c].name = "check_invoices" /\ ~organization_id["books2"]) =>
            /\ handler[c].pc = "done"
            /\ handler[c].response.kind = "error"
            /\ handler[c].response.status_code = 400
            /\ handler[c].fetched = <<>>
            /\ handler[c].mails = <<>>
            /\ calls[c] = 0
            /\ token_requests[c] = 0 /\ data_requests[c] = 0 /\ files_requests[c] = 0
            /\ token_manager = [s \in Services |-> EmptyManager]

\* C16 witness: the configuration error was answered to a request that names a
\* recipient, with invoices upstream.
C16_Witness ==
    \E c \in Callers :
        /\ Answered(c)
        /\ ~organization_id["books2"]
        /\ handler[c].response.status_code = 400
        /\ upstream.invoices # <<>>
        /\ Strip(handler[c].payload.email) # <<>>

\* C18: check_invoices answers with the complete result or with one error: the
\* answer is the error of the fetch that failed exactly when a fetch failed,
\* then there is no result and no report was handed to send_email, and after a
\* failed accounting fetch the storage was not fetched from; otherwise both
\* fetches were made and every field of the result is there.
C18_ResultOrSingleError ==
    \A c \in Callers :
        (Answered(c) /\ organization_id["books2"]) =>
            LET h == handler[c] IN
            /\ Len(h.results) = Len(h.fetched)
            /\ h.response.kind \in {"ok", "error"}
            /\ h.response.kind = "error" <=>
                  \E i \in 1..Len(h.results) : h.results[i].kind = "fail"
            /\ h.response.kind = "error" =>
                  /\ h.response = Raised(h.results[Len(h.results)])
                  /\ h.response.body = <<>>
                  /\ h.mails = <<>>
                  /\ h.results[1].kind = "fail" => h.fetched = <<"books2">>
            /\ h.response.kind = "ok" =>
                  /\ h.fetched = <<"books2", "workdrive">>
                  /\ Len(h.response.body) = 1
                  /\ DOMAIN h.response.body[1] = ResultFields

\* C18 witness: the accounting fetch returned invoices, the token exchange of
\* the storage fetch failed, and the caller who named a recipient got the error.
C18_Witness ==
    \E c \in Callers :
        /\ Answered(c)
        /\ Len(handler[c].results) = 2
        /\ handler[c].results[2] = AuthError
        /\ handler[c].invoice_numbers # <<>>
        /\ Strip(handler[c].payload.email) # <<>>
        /\ handler[c].response.kind = "error"

\* C19: a report is handed to send_email exactly when the request names a
\* recipient and the storage fetch returned at least one entry; once handed
\* over the call returns its result whatever send_email does, email_sent is
\* true exactly when send_email returned, and the other fields of the result
\* are those of a successful delivery.
C19_MailIffRecipientAndFiles ==
    \A c \in Callers :
        LET h == handler[c] IN
        /\ (Answered(c) /\ h.mails # <<>>) => h.response.kind = "ok"
        /\ (Answered(c) /\ h.response.kind = "ok") =>
              LET body == h.response.body[1] IN
              /\ Len(h.mails) <= 1
              /\ Len(h.mails) = 1 <=>
                    (Strip(h.payload.email) # <<>> /\ body.workdrive_files >= 1)
              /\ body.email_sent <=>
                    (Len(h.mails) = 1 /\ h.mails[1].outcome = "sent")
              /\ [body EXCEPT !.email_sent = TRUE] =
                    ReconciliationResult(h.payload, h.invoice_numbers,
                                         h.file_invoice_numbers, TRUE)

\* C19 witness: the mail service rejected the report, and the result came back
\* with email_sent false and its missing list.
C19_Witness ==
    \E c \in Callers :
        /\ Answered(c)
        /\ Len(handler[c].mails) = 1
        /\ handler[c].mails[1].outcome = "rejected"
        /\ handler[c].response.kind = "ok"
        /\ ~handler[c].response.body[1].email_sent
        /\ handler[c].response.body[1].missing >= 1

\* C20: with A the filtered accounting numbers and B the storage candidates,
\* matched is the number of entries of A that are in B, missing_list the
\* entries of A not in B in the order of A, missing its length, and
\* matched + missing = books_invoices = the length of A.
C20_ReconcileCounts ==
    \A c \in Callers :
        (Answered(c) /\ handler[c].response.kind = "ok") =>
            LET A == handler[c].invoice_numbers
                B == {handler[c].file_invoice_numbers[i] :
                          i \in 1..Len(handler[c].file_invoice_numbers)}
                body == handler[c].response.body[1]
                out == {i \in 1..Len(A) : A[i] \notin B}
                \* the k-th position of A, in the order of A, whose entry is not in B
                nth[k \in 1..Cardinality(out)] ==
                    CHOOSE i \in out : Cardinality({j \in out : j < i}) = k - 1 IN
            /\ A = FilterInvoices(upstream.invoices, handler[c].payload)
            /\ body.matched = Cardinality({i \in 1..Len(A) : A[i] \in B})
            /\ body.missing_list = [k \in 1..Cardinality(out) |-> A[nth[k]]]
            /\ body.missing = Len(body.missing_list)
            /\ body.matched + body.missing = body.books_invoices
            /\ body.books_invoices = Len(A)

\* C20 witness: of three filtered numbers one is stored and the other, listed
\* twice upstream, is reported missing twice, in order.
C20_Witness ==
    \E c \in Callers :
        /\ Answered(c) /\ handler[c].response.kind = "ok"
        /\ handler[c].invoice_numbers = <<INV1, INV2, INV1>>
        /\ handler[c].response.body[1].matched = 1
        /\ handler[c].response.body[1].missing = 2
        /\ handler[c].response.body[1].missing_list = <<INV1, INV1>>

\* ========================================= the endpoints of zoho_books.py
\* The endpoints that put the organization into their request.
BooksEndpoints ==
    {"submit_book_data", "get_invoices", "get_invoice_by_id", "get_analytics_overview",
     "get_upcoming_due_invoices", "apply_job_card", "get_activity_logs"}

\* except Exception as e: raise HTTPException(status_code=500, detail=str(e)),
\* around the whole body of the endpoint.
ExceptException(raised) == [raised EXCEPT !.status_code = HTTP_500]

\* An endpoint from its entry to the call of make_zoho_books_request; the
\* HTTPException(400) of the missing organization is raised inside the try.
Endpoint(c, e) ==
    /\ handler[c].pc \in {"idle", "done"}
    /\ calls[c] < MaxCalls
    /\ IF Configured("books")
       THEN /\ StartCall(c, "books")
            /\ handler' = [handler EXCEPT ![c] =
                  [IdleHandler EXCEPT !.name = e, !.pc = "books",
                                      !.fetched = <<"books">>]]
       ELSE /\ UNCHANGED gateway_vars
            /\ handler' = [handler EXCEPT ![c] =
                  [IdleHandler EXCEPT !.name = e, !.pc = "done",
                                      !.response = ExceptException(ConfigError)]]
    /\ UNCHANGED <<thread_vars, store_vars, organization_id, upstream>>

\* make_zoho_books_request is over: the endpoint returns the data, or the
\* except clause turns the HTTPException into its own.
EndpointReturned(c) ==
    /\ handler[c].name \in BooksEndpoints
    /\ handler[c].pc = "books"
    /\ pc[c] = "done"
    /\ handler' = [handler EXCEPT
          ![c].pc = "done",
          ![c].results = Append(@, result[c]),
          ![c].response =
              IF FetchFailed(result[c]) THEN ExceptException(Raised(result[c]))
              ELSE Returned([success |-> TRUE, data |-> result[c].data.body])]
    /\ UNCHANGED <<gateway_vars, thread_vars, store_vars, organization_id, upstream>>

InitBooks ==
    /\ InitGateways
    /\ InitThreads
    /\ InitStore
    /\ organization_id \in {f \in [Organizations -> BOOLEAN] : f["books2"]}
    /\ upstream = NoUpstream
    /\ handler = [c \in Callers |-> IdleHandler]

\* The accounting endpoints with their gateway call.
NextBooks ==
    \/ \E c \in Callers, e \in BooksEndpoints : Endpoint(c, e)
    \/ \E c \in Callers : GetValidAccessToken(c, HandlerTokenResponses) /\ GatewaysOnly
    \/ \E c \in Callers : FirstRequest(c, HandlerData) /\ GatewaysOnly
    \/ \E c \in Callers : Refresh(c, HandlerTokenResponses) /\ GatewaysOnly
    \/ \E c \in Callers : Retry(c, HandlerData) /\ GatewaysOnly
    \/ \E c \in Callers : EndpointReturned(c)

SpecBooks == InitBooks /\ [][NextBooks]_vars

\* C17: an accounting endpoint called with no organization configured answers
\* 400, not a 5xx status, and has made no upstream request.
C17_EndpointConfigErrorIs400 ==
    \A c \in Callers :
        (handler[c].name \in BooksEndpoints /\ ~organization_id["books"]) =>
            /\ handler[c].pc = "done"
            /\ handler[c].response.kind = "error"
            /\ handler[c].response.status_code = 400
            /\ handler[c].fetched = <<>>
            /\ calls[c] = 0
            /\ token_requests[c] = 0 /\ data_requests[c] = 0

\* ------------------------------------ check_invoices on what it fetched ---
\* The filter, the extraction, the reconciliation and the report of
\* check_invoices, with both fetches answered by what the upstreams hold.
MaxListed == 42         \* invoices of the longest list

Digits == <<"0", "1", "2", "3", "4", "5", "6", "7", "8", "9">>
Numbered(k) == INV \o <<Digits[(k \div 10) + 1], Digits[(k % 10) + 1]>>
INV4 == <<"I", "N", "V", "4">>
DRAFT == <<"d", "r", "a", "f", "t">>

\* A status filter written with a capital, a status the filter does not know,
\* currency names in several spellings, and days that are no dates.
Unpaid == <<"U", "n", "p", "a", "i", "d">>
StatusFilters ==
    {<<>>, <<UNPAID>>, <<PAID>>, <<Unpaid>>, <<PAID, OVERDUE>>, <<SENT>>}
CurrencyTexts ==
    {<<>>, KSH, <<"K", "e", "n", "y", "a", "n", " ", "S", "h", "i", "l", "l", "i", "n", "g", "s">>, USD, <<"D", "o", "l", "l", "a", "r", "s">>,
     <<"e", "u", "r">>, <<"k", LONG_S, "h">>}
FirstDays == {"", "2024-01-10", "soon"}
LastDays == {"", "2024-01-10", "later"}
FilterPayloads ==
    {[NoPayload EXCEPT !.currency = cur, !.statuses = st,
                       !.date_from = f, !.date_to = t] :
        cur \in CurrencyTexts, st \in StatusFilters, f \in FirstDays, t \in LastDays}

\* One invoice of every status, currency and day; the four statuses in one
\* list; lists longer than the report shows.
FilterInvoicePool ==
    [invoice_number : {INV1}, status : {PAID, SENT, OVERDUE, UNPAID, DRAFT},
     currency_code : {KES, USD}, date : {"", "2024-01-05", "2024-01-20", "10 Jan"}]
FourStatuses ==
    <<[invoice_number |-> INV1, status |-> PAID, currency_code |-> KES, date |-> "2024-01-10"],
      [invoice_number |-> INV2, status |-> SENT, currency_code |-> KES, date |-> "2024-01-10"],
      [invoice_number |-> INV3, status |-> OVERDUE, currency_code |-> KES, date |-> "2024-01-10"],
      [invoice_number |-> INV4, status |-> UNPAID, currency_code |-> KES, date |-> "2024-01-10"]>>
LongList(n) ==
    [i \in 1..n |-> [invoice_number |-> Numbered(i), status |-> PAID,
                     currency_code |-> KES, date |-> ""]]
LongLists == {LongList(n) : n \in {TextListLimit, TextListLimit + 1, MaxListed}}

\* File names: a scan, a name with "inv" inside a word, a folder, a name with
\* U+00DF before the number, a number with blanks around it, no number.
SCAN == <<"I", "N", "V", "-", "2", "0", "2", "4", "-", "0", "0", "1", ".", "p", "d", "f">>
NO_MARKER == <<"i", "n", "v", "o", "i", "c", "e", "_", "n", "o", "_", "m", "a", "r", "k", "e", "r", ".", "p", "d", "f">>
FOLDER_INV99 == <<"f", "o", "l", "d", "e", "r", "_", "I", "N", "V", "9", "9">>
STRASSE == <<"S", "t", "r", "a", SHARP_S, "e", "_", "I", "N", "V", "-", "0", "0", "1", ".", "p", "d", "f">>
SPACED == <<"s", "c", "a", "n", " ", "i", "n", "v", " ", "3", " ", ".", "p", "d", "f">>
README == <<"r", "e", "a", "d", "m", "e", ".", "t", "x", "t">>
NamedListings ==
    {<<File(SCAN)>>, <<File(NO_MARKER)>>, <<Folder(FOLDER_INV99)>>, <<File(STRASSE)>>,
     <<File(SPACED)>>, <<File(README)>>,
     <<File(README), File(SCAN), Folder(FOLDER_INV99), File(SPACED), File(SCAN)>>}

\* The filter over what fetch_books_invoices returned.
FilterBooks(c) ==
    /\ handler[c].pc = "idle"
    /\ handler' = [handler EXCEPT
          ![c].name = "check_invoices",
          ![c].pc = "drive",
          ![c].invoice_numbers = FilterInvoices(upstream.invoices, handler[c].payload)]
    /\ UNCHANGED <<gateway_vars, thread_vars, store_vars, organization_id, upstream>>

\* The reconciliation over what fetch_workdrive_invoice_numbers returned; the
\* handler returns unless there is a report to send.
ExtractNumbers(c) ==
    LET h == handler[c]
        numbers == FileInvoiceNumbers(upstream.files) IN
    /\ h.name = "check_invoices"
    /\ h.pc = "drive"
    /\ pc[c] = "idle"
    /\ IF ShouldMail(numbers, Strip(h.payload.email))
       THEN handler' = [handler EXCEPT ![c].pc = "mail",
                                       ![c].file_invoice_numbers = numbers]
       ELSE handler' = [handler EXCEPT
                ![c].pc = "done",
                ![c].file_invoice_numbers = numbers,
                ![c].response = Returned(ReconciliationResult(
                                    h.payload, h.invoice_numbers, numbers, FALSE))]
    /\ UNCHANGED <<gateway_vars, thread_vars, store_vars, organization_id, upstream>>

\* Every filter over every invoice and the four statuses, or every listing
\* against a short and a long list, with and without a recipient.
InitFilters ==
    /\ InitGateways
    /\ InitThreads
    /\ InitStore
    /\ organization_id = [o \in Organizations |-> TRUE]
    /\ \E p \in FilterPayloads \cup {[NoPayload EXCEPT !.email = <<"a", "@", "b">>]} :
          /\ handler = [c \in Callers |-> [IdleHandler EXCEPT !.payload = p]]
          /\ IF p.email = <<>>
             THEN upstream \in [invoices : {<<i>> : i \in FilterInvoicePool} \cup {FourStatuses},
                                files : {<<>>, <<File(SCAN)>>}]
             ELSE upstream \in [invoices : LongLists \cup {<<>>, FourStatuses},
                                files : NamedListings \cup FileLists]

NextFilters ==
    \/ \E c \in Callers : FilterBooks(c)
    \/ \E c \in Callers : ExtractNumbers(c)
    \/ \E c \in Callers : SendEmail(c)

SpecFilters == InitFilters /\ [][NextFilters]_vars

\* ---------------------------------------------- claims on the filter ---
\* The invoice numbers of the entries of all_invoices at the positions in
\* kept, in the order of the list.
NumbersAt(all_invoices, kept) ==
    LET taken[i \in 0..Len(all_invoices)] ==
            IF i = 0 THEN <<>>
            ELSE IF i \in kept THEN Append(taken[i - 1], all_invoices[i].invoice_number)
                 ELSE taken[i - 1] IN
    taken[Len(all_invoices)]

\* check_invoices has filtered the invoices it fetched.
Filtered(c) ==
    /\ handler[c].name = "check_invoices"
    /\ handler[c].pc \in {"drive", "mail", "done"}
    /\ handler[c].response.kind # "error"

\* The request filters by status at most.
ByStatusOnly(p) == p.currency = <<>> /\ p.date_from = "" /\ p.date_to = ""

\* The rule of the status filter for one requested status r and an invoice of
\* status s.
StatusRule(r, s) ==
    \/ r = PAID /\ s = PAID
    \/ r = OVERDUE /\ s = OVERDUE
    \/ r = UNPAID /\ s \in {SENT, UNPAID}

WithinDays(inv, p) ==
    LET d == ParseDate(inv.date)
        f == ParseDate(p.date_from)
        t == ParseDate(p.date_to) IN
    d # <<>> => /\ f # <<>> => d[1] >= f[1]
                /\ t # <<>> => d[1] <= t[1]

\* C22: every invoice number check_invoices counts belongs to an invoice whose
\* currency is the normalized currency of the request, when one is given, and
\* whose date, when it parses, lies within the first and the last day given;
\* an invoice whose date does not parse is kept.
C22_CountedWithinFilter ==
    \A c \in Callers :
        Filtered(c) =>
            LET p == handler[c].payload IN
            \A k \in 1..Len(handler[c].invoice_numbers) :
                \E i \in 1..Len(upstream.invoices) :
                    LET inv == upstream.invoices[i] IN
                    /\ inv.invoice_number = handler[c].invoice_numbers[k]
                    /\ p.currency # <<>> => inv.currency_code = NormalizeCurrency(p.currency)
                    /\ WithinDays(inv, p)

\* ------------------------------------------ claims on the extraction ---
\* The candidate of C23 for a file name: the text from the first position at
\* which the name reads "INV" in any letter case up to the next "." or the end
\* of the name, trimmed; <<>> when the name reads "INV" nowhere.
CandidateOf(file_name) ==
    LET at == {i \in 1..(Len(file_name) - 2) :
                  Upper(SubSeq(file_name, i, i + 2)) = INV} IN
    IF at = {} THEN <<>>
    ELSE LET start == CHOOSE i \in at : \A j \in at : i <= j
             dot == Find(file_name, <<".">>, start) IN
         Strip(SubSeq(file_name, start,
                      IF dot = 0 THEN Len(file_name) ELSE dot - 1))

NonBlank(text) == text # <<>>

\* check_invoices has the numbers of the storage listing.
Extracted(c) ==
    /\ handler[c].name = "check_invoices"
    /\ handler[c].pc \in {"mail", "done"}
    /\ handler[c].response.kind # "error"

\* C23: the numbers extracted from the listing are, in the order of the
\* listing, the candidates of the entries that are no folders and yield a
\* candidate: the text from the first case-insensitive "INV" up to the next
\* "." or the end of the name, trimmed.
C23_ExtractionRule ==
    \A c \in Callers :
        Extracted(c) =>
            handler[c].file_invoice_numbers =
                SelectSeq([i \in 1..Len(upstream.files) |->
                              IF upstream.files[i].is_folder THEN <<>>
                              ELSE CandidateOf(upstream.files[i].name)],
                          NonBlank)

\* C24: the report check_invoices renders shows a missing list of n > 20
\* entries as its first 20 entries followed by the marker "... +(n-20)", and
\* the missing_list of the returned result holds all n entries.
C24_ReportTruncation ==
    \A c \in Callers :
        handler[c].name = "check_invoices" /\ handler[c].pc = "done"
        /\ handler[c].response.kind = "ok" =>
            LET body == handler[c].response.body[1]
                n == body.missing IN
            /\ Len(body.missing_list) = n
            /\ \A m \in 1..Len(handler[c].mails) :
                  LET report == handler[c].mails[m].report IN
                  n > TextListLimit =>
                      /\ report.items = SubSeq(body.missing_list, 1, TextListLimit)
                      /\ report.note = <<[text |-> "... +", count |-> <<n - TextListLimit>>]>>

\* ------------------------------------- claims on normalize_currency ---
\* C26: in the result of check_invoices, a currency "ksh" or "kenyan
\* shillings" in any letter case has become "KES", "dollars" or "usd" in any
\* letter case "USD", any other non-empty currency its upper case, an absent
\* one ""; and normalizing the normalized currency again changes nothing.
C26_NormalizeCurrency ==
    \A c \in Callers :
        handler[c].name = "check_invoices" /\ handler[c].pc = "done"
        /\ handler[c].response.kind = "ok" =>
            LET x == handler[c].payload.currency
                y == handler[c].response.body[1].currency IN
            /\ Lower(x) \in {KSH, KENYAN_SHILLINGS} => y = KES
            /\ Lower(x) \in {DOLLARS, Lower(USD)} => y = USD
            /\ x = <<>> => y = <<>>
            /\ x # <<>> /\ Lower(x) \notin {KSH, KENYAN_SHILLINGS, DOLLARS, Lower(USD)}
                  => y = Upper(x)
            /\ NormalizeCurrency(y) = y

\* ------------------------------------------- check_invoices, twice ---
\* The same request served twice against the same upstream data, the token
\* caches being what the calls before left.
MaxFetches == 4         \* gateway calls the requests of one caller start

\* The token endpoint fails, or issues a token that lives (t1) or one that is
\* expired when it is stored (t2).
TwiceTokenResponses ==
    {r \in TokenResponses :
        \/ r.kind = "neterr"
        \/ r.access_token = "t1" /\ r.expires_in = <<>>
        \/ r.access_token = "t2" /\ r.expires_in = <<SafetyMargin>>}

\* The upstreams reject the token or answer with what they hold.
TwiceDataResponses(s) ==
    {r \in DataResponses(s) :
        /\ r.body = "b1"
        /\ r.status \in {200, HTTP_401}
        /\ r.code = <<>> /\ ~r.errors
        /\ (s = "workdrive" /\ r.status = 200) => r.related}
TwiceData == [s \in Services |-> TwiceDataResponses(s)]

InitTwice ==
    /\ InitGateways
    /\ InitThreads
    /\ InitStore
    /\ organization_id = [o \in Organizations |-> TRUE]
    /\ upstream \in [invoices : {l \in InvoiceLists : Len(l) <= 1} \cup {FourStatuses},
                     files : FileLists]
    /\ handler \in {[c \in Callers |-> [IdleHandler EXCEPT !.payload = p]] : p \in Payloads}

\* check_invoices is entered, the answer to the request before is remembered.
NextTwice ==
    \/ \E c \in Callers :
          /\ calls[c] + 2 <= MaxFetches
          /\ CheckInvoices(c)
          /\ previous' = [previous EXCEPT ![c] =
                 IF handler[c].pc = "done" THEN <<handler[c].response>> ELSE <<>>]
    \/ \E c \in Callers : GetValidAccessToken(c, TwiceTokenResponses) /\ GatewaysOnly
    \/ \E c \in Callers : FirstRequest(c, TwiceData) /\ GatewaysOnly
    \/ \E c \in Callers : Refresh(c, TwiceTokenResponses) /\ GatewaysOnly
    \/ \E c \in Callers : Retry(c, TwiceData) /\ GatewaysOnly
    \/ \E c \in Callers : FilesRequest(c, TwiceData) /\ GatewaysOnly
    \/ \E c \in Callers : BooksFetched(c)
    \/ \E c \in Callers : DriveFetched(c)
    \/ \E c \in Callers : SendEmail(c)

SpecTwice == InitTwice /\ [][NextTwice]_vars

\* check_invoices returned a result to this request and to the one before.
AnsweredTwice(c) ==
    /\ Answered(c)
    /\ handler[c].response.kind = "ok"
    /\ previous[c] # <<>>
    /\ previous[c][1].kind = "ok"

\* C25: two calls of check_invoices with the same filters against unchanged
\* upstream data return the same currency, statuses, counts, matched, missing
\* and missing_list, whatever the token caches held when each call started.
C25_Idempotent ==
    \A c \in Callers :
        AnsweredTwice(c) =>
            LET a == previous[c][1].body[1]
                b == handler[c].response.body[1] IN
            \A f \in {"currency", "statuses", "books_invoices", "workdrive_files",
                      "matched", "missing", "missing_list"} : a[f] = b[f]

\* The second call found a cached token that the storage service rejected,
\* refreshed it, and reported a missing invoice as the first call did.
C25_Witness ==
    \E c \in Callers :
        /\ AnsweredTwice(c)
        /\ hit[c] /\ Refreshed(c)
        /\ handler[c].response.body[1].missing > 0
        /\ handler[c].response.body[1].matched > 0

\* --------------------------------------------------- reset_password ---
\* reset_password is a `def` endpoint: each request runs in a thread of the
\* server's pool with a database session of its own. What a session read stays
\* as it read it; its commit writes the rows it changed.
ResetTokenTexts == {"k1", "k2", "k9"}    \* k1 is unused, k2 has expired, k9 is unknown
NewPasswords ==
    {[text |-> "secret1", len |-> 7], [text |-> "secret2", len |-> 7],
     [text |-> "short", len |-> 5]}
MinPasswordLen == 6     \* len(payload.new_password) < 6

\* get_password_hash
PasswordHash(text) == <<"hash", text>>

Detail(status_code, detail) ==
    [kind |-> "error", status_code |-> status_code, error |-> NoResult, body |-> <<detail>>]

\* The rows the query of reset_password matches.
TokenEntries(token) ==
    {row \in password_reset_tokens :
        row.token = token /\ row.used_at = <<>> /\ row.expires_at >= clock}

\* reset_password up to its commit: the length test, the token query and the
\* user query.
ResetPassword(t) ==
    /\ request[t].pc = "idle"
    /\ \E token \in ResetTokenTexts, new_password \in NewPasswords :
          LET r == [NoRequest EXCEPT !.name = "reset_password", !.token = token,
                                     !.new_password = new_password.text] IN
          IF new_password.len < MinPasswordLen
          THEN request' = [request EXCEPT ![t] =
                  [r EXCEPT !.pc = "done",
                            !.response = Detail(HTTP_400, "Password must be at least 6 characters")]]
          ELSE IF TokenEntries(token) = {}
          THEN request' = [request EXCEPT ![t] =
                  [r EXCEPT !.pc = "done",
                            !.response = Detail(HTTP_400, "Invalid or expired token")]]
          ELSE \E token_entry \in TokenEntries(token) :
                  IF users[token_entry.user_id] = <<>>
                  THEN request' = [request EXCEPT ![t] =
                          [r EXCEPT !.pc = "done",
                                    !.response = Detail(HTTP_404, "User not found")]]
                  ELSE request' = [request EXCEPT ![t] =
                          [r EXCEPT !.pc = "found", !.token_entry = <<token_entry>>]]
    /\ UNCHANGED <<gateway_vars, thread_vars, handler_vars, previous, clock, db_vars,
                   created, deleted>>

\* user.password = ...; token_entry.used_at = ...; db.commit()
ResetCommit(t) ==
    LET token_entry == request[t].token_entry[1] IN
    /\ request[t].pc = "found"
    /\ users' = [users EXCEPT ![token_entry.user_id] =
                    <<[password |-> PasswordHash(request[t].new_password)]>>]
    /\ password_reset_tokens' =
          {IF row.token = token_entry.token THEN [row EXCEPT !.used_at = <<clock>>]
           ELSE row : row \in password_reset_tokens}
    /\ request' = [request EXCEPT
          ![t].pc = "done",
          ![t].response = Returned("Password reset successful")]
    /\ UNCHANGED <<gateway_vars, thread_vars, handler_vars, previous, clock, job_cards,
                   notifications, created, deleted>>

\* One user, a token of theirs that expires in an hour and one that expired
\* an hour ago.
InitReset ==
    /\ InitGateways
    /\ InitThreads
    /\ InitHandlers
    /\ previous = [c \in Callers |-> <<>>]
    /\ clock = 1
    /\ users = [u \in UserIds |-> IF u = "u1" THEN <<[password |-> PasswordHash("old")]>>
                                  ELSE <<>>]
    /\ password_reset_tokens =
          {[token |-> "k1", user_id |-> "u1", expires_at |-> 2, used_at |-> <<>>],
           [token |-> "k2", user_id |-> "u1", expires_at |-> 0, used_at |-> <<>>]}
    /\ job_cards = {}
    /\ notifications = {}
    /\ request = [t \in Threads |-> NoRequest]
    /\ created = <<>>
    /\ deleted = {}

NextReset ==
    \/ \E t \in Threads : ResetPassword(t)
    \/ \E t \in Threads : ResetCommit(t)

SpecReset == InitReset /\ [][NextReset]_vars

\* The requests that presented token and changed the password.
Succeeded(token) ==
    {t \in Threads : /\ request[t].pc = "done"
                     /\ request[t].token = token
                     /\ request[t].response.kind = "ok"}

\* C28: of the reset_password requests that present one token, at most one
\* changes the password; every other one, and every one with an expired or
\* unknown token, fails with "Invalid or expired token".
C28_TokenSingleUse ==
    /\ \A token \in ResetTokenTexts : Cardinality(Succeeded(token)) <= 1
    /\ \A t \in Threads :
          request[t].pc = "done" /\ request[t].new_password # "short" =>
              \/ t \in Succeeded("k1")
              \/ request[t].response.body = <<"Invalid or expired token">>

\* -------------------------------------------------- create_job_card ---
\* create_job_card is an `async def` endpoint that awaits nothing before its
\* commit: the single server process runs it from its entry to the commit as
\* one step of the event loop. delete_user_permanently writes in one
\* transaction. All job cards fall into one month.
MaxCards == 4           \* calls of create_job_card
InvoiceIds == {1, 9}    \* ZohoInvoice 1 is stored, 9 is no invoice

\* f"JC-{year}-{month:02d}-{count + 1:04d}" within the month
JobCardNumber(count) == <<"JC", count + 1>>

\* generate_job_card_number: the job cards of the month are counted.
GenerateJobCardNumber == JobCardNumber(Cardinality(job_cards))

\* create_job_card by user u for an invoice: 404 without the invoice; else the
\* number is generated and the job card committed; the commit of a number that
\* a stored job card holds raises (job_card_number is unique), and nothing is
\* stored. A stored job card is announced by a notification.
CreateJobCard(u, invoice_id) ==
    LET job_card_number == GenerateJobCardNumber
        held == {c.job_card_number : c \in job_cards} IN
    /\ users[u] # <<>>
    /\ Len(created) < MaxCards
    /\ IF invoice_id # 1
       THEN UNCHANGED <<job_cards, notifications, created>>
       ELSE /\ created' = Append(created, [job_card_number |-> job_card_number,
                                           held |-> held,
                                           stored |-> job_card_number \notin held])
            /\ job_cards' =
                  IF job_card_number \in held THEN job_cards
                  ELSE job_cards \cup {[id |-> Len(created) + 1,
                                        job_card_number |-> job_card_number,
                                        invoice_id |-> invoice_id,
                                        created_by |-> u]}
            /\ notifications' =
                  IF job_card_number \in held THEN notifications
                  ELSE notifications \cup {[id |-> Len(created) + 1,
                                            created_at |-> clock,
                                            read_at |-> <<>>,
                                            created_by |-> u]}
    /\ UNCHANGED <<gateway_vars, thread_vars, handler_vars, previous, clock, users,
                   password_reset_tokens, request, deleted>>

\* delete_user_permanently(user_id): the job cards, the notifications and the
\* reset tokens of the user go with the user.
DeleteUserPermanently(user_id) ==
    /\ users[user_id] # <<>>
    /\ job_cards' = {c \in job_cards : c.created_by # user_id}
    /\ password_reset_tokens' = {r \in password_reset_tokens : r.user_id # user_id}
    /\ notifications' = {n \in notifications : n.created_by # user_id}
    /\ users' = [users EXCEPT ![user_id] = <<>>]
    /\ UNCHANGED <<gateway_vars, thread_vars, handler_vars, previous, clock,
                   request, created, deleted>>

\* Two users, no job card yet.
InitCards ==
    /\ InitGateways
    /\ InitThreads
    /\ InitHandlers
    /\ previous = [c \in Callers |-> <<>>]
    /\ clock = 0
    /\ users = [u \in UserIds |-> <<[password |-> PasswordHash("old")]>>]
    /\ password_reset_tokens = {}
    /\ job_cards = {}
    /\ notifications = {}
    /\ request = [t \in Threads |-> NoRequest]
    /\ created = <<>>
    /\ deleted = {}

NextCards ==
    \/ \E u \in UserIds, invoice_id \in InvoiceIds : CreateJobCard(u, invoice_id)
    \/ \E u \in UserIds : DeleteUserPermanently(u)

SpecCards == InitCards /\ [][NextCards]_vars

\* C29: generate_job_card_number never returns a number that a stored job card
\* holds, so no creation fails on its number, and no two stored job cards
\* share a job_card_number.
C29_JobCardNumbersUnique ==
    /\ \A i \in 1..Len(created) :
          created[i].job_card_number \notin created[i].held /\ created[i].stored
    /\ \A a, b \in job_cards : a.job_card_number = b.job_card_number => a = b

\* ---------------------------------------------------- notifications ---
\* Time is counted in hours. Every operation runs in one transaction that it
\* commits before it answers.
MaxHours == 60          \* hours the clock runs
HourStep == 12          \* hours between two looks at the clock
MaxNotifications == 2   \* notifications ever created
SeenHours == 24         \* seen_hours=24
UnseenHours == 48       \* unseen_hours=48
ThreadHours == 24       \* timedelta(hours=24) in list_thread

\* The id the next notification gets.
NextNotificationId ==
    LET ids == {n.id : n \in notifications} \cup {d.id : d \in deleted} \cup {0} IN
    1 + CHOOSE i \in ids : \A j \in ids : j <= i

\* What a delete of the rows gone adds to the record of deletions.
Gone(rows) ==
    {[id |-> n.id, age |-> clock - n.created_at, read |-> n.read_at # <<>>] : n \in rows}

\* The rows cleanup_old_notifications deletes.
OldNotifications(seen_hours, unseen_hours) ==
    {n \in notifications :
        \/ n.read_at # <<>> /\ n.created_at < clock - seen_hours
        \/ n.read_at = <<>> /\ n.created_at < clock - unseen_hours}

\* db.add(notification); db.commit(), for each of the recipients
NewNotifications(u, recipients) ==
    {[id |-> NextNotificationId + k, created_at |-> clock, read_at |-> <<>>,
      created_by |-> u] : k \in 0..(recipients - 1)}

Frame == UNCHANGED <<gateway_vars, thread_vars, handler_vars, previous, users,
                     password_reset_tokens, job_cards, request, created>>

\* Time passes.
Pass ==
    /\ clock + HourStep <= MaxHours
    /\ clock' = clock + HourStep
    /\ UNCHANGED <<notifications, deleted>>
    /\ Frame

\* cleanup_old_notifications(db, seen_hours=24, unseen_hours=48)
CleanupOldNotifications ==
    LET old == OldNotifications(SeenHours, UnseenHours) IN
    /\ notifications' = notifications \ old
    /\ deleted' = deleted \cup Gone(old)
    /\ UNCHANGED clock
    /\ Frame

\* create_notification: the cleanup, then one row per recipient (a
\* recipient_id is taken twice).
CreateNotification(u, recipients) ==
    LET old == OldNotifications(SeenHours, UnseenHours) IN
    /\ NextNotificationId + recipients - 1 <= MaxNotifications
    /\ notifications' = (notifications \ old) \cup NewNotifications(u, recipients)
    /\ deleted' = deleted \cup Gone(old)
    /\ UNCHANGED clock
    /\ Frame

ListNotifications == CleanupOldNotifications
ListMyNotifications == CleanupOldNotifications

\* list_thread: every notification created more than 24 hours ago is deleted.
ListThread ==
    LET old == {n \in notifications : n.created_at < clock - ThreadHours} IN
    /\ notifications' = notifications \ old
    /\ deleted' = deleted \cup Gone(old)
    /\ UNCHANGED clock
    /\ Frame

\* reply_notification: one row for the admin, no cleanup.
ReplyNotification(u) ==
    /\ NextNotificationId <= MaxNotifications
    /\ notifications' = notifications \cup NewNotifications(u, 1)
    /\ UNCHANGED <<clock, deleted>>
    /\ Frame

\* mark_notification_read
MarkNotificationRead(notification_id) ==
    /\ \E n \in notifications : n.id = notification_id
    /\ notifications' = {IF n.id = notification_id THEN [n EXCEPT !.read_at = <<clock>>]
                         ELSE n : n \in notifications}
    /\ UNCHANGED <<clock, deleted>>
    /\ Frame

\* notification_cleanup_loop, once an hour
NotificationCleanupLoop == CleanupOldNotifications

NextNotifications ==
    \/ Pass
    \/ \E u \in UserIds, recipients \in {1, 2} : CreateNotification(u, recipients)
    \/ ListNotifications
    \/ ListMyNotifications
    \/ ListThread
    \/ \E u \in UserIds : ReplyNotification(u)
    \/ \E i \in 1..MaxNotifications : MarkNotificationRead(i)
    \/ NotificationCleanupLoop

\* No notification is stored when the server starts.
SpecNotifications == Init /\ [][NextNotifications]_vars

\* C30: a notification is deleted only if it is read and older than 24 hours
\* or unread and older than 48 hours; an unread notification younger than 48
\* hours is never deleted.
C30_RetentionWindows ==
    \A d \in deleted :
        \/ d.read /\ d.age > SeenHours
        \/ ~d.read /\ d.age > UnseenHours

====
